---------------------------- MODULE Spec2Model ----------------------------
(* Glacier Mirror (src/glacier.py): the archival engine as a state machine. *)
(*                                                                          *)
(* One invocation of the program is a run: main() loads the inventory file  *)
(* into memory, vets the command with the guard, and then either purges     *)
(* bags/branches or scans, packs, uploads and commits the branches of the   *)
(* tree file one after the other.  The environment (the operator and the    *)
(* mirrored filesystem) acts between runs.                                  *)
(*                                                                          *)
(* Spec is the whole program: every command, dry and live, kills at any     *)
(* point and failing saves.  SpecMirror keeps the mirror commands that run  *)
(* to their end.  SpecBranch is one call of process_branch (scan, pack) on  *)
(* any stored catalog.                                                      *)
(*                                                                          *)
(* SpecPack and SpecMany are process_branch on a branch whose leaves have   *)
(* drawn sizes (three and seven leaves).  SpecBag is a live mirror of one   *)
(* branch with the staging, tar and upload steps of each bag apart.         *)
(* SpecCleanup is the call of handle_repack_cleanup on any bucket.          *)
(*                                                                          *)
(* SpecCrypt is a mirror of a branch whose line may carry ENCRYPT in any    *)
(* spelling; SpecCron is the scheduled mirror on any stored catalog;        *)
(* SpecPrune is pruning by glacier --prune and by prune.py; SpecRestore is  *)
(* one leaf packed and restored; SpecHash is the fingerprint of one leaf    *)
(* directory; SpecTwins is the mirror of two directories of one basename.   *)
(*                                                                          *)
(* SpecPurge is the delete commands on those two directories; SpecMount is  *)
(* process_branch on a remote branch with each of its exit paths;           *)
(* SpecStage is the stager's path reconstruction on any remote tree line.   *)
EXTENDS Integers, Sequences, FiniteSets, TLC

(***************************************************************************)
(* Universe                                                                *)
(***************************************************************************)

\* Bounds of the exploration.
MaxRuns == 2            \* program invocations in one behaviour
MaxContent == 2         \* distinct contents a leaf directory can take
MaxSize == 3            \* largest leaf size the packer is exercised with

\* Configuration: target_bag_gb * BYTES_PER_GB, in model size units.
TARGET_SIZE_BYTES == 2

\* The tree file: two MUTABLE branches, in file order (A is read from a
\* remote host and compressed, B is a local directory).
tree_lines == <<"A", "B">>
Branches == {tree_lines[i] : i \in 1..Len(tree_lines)}

\* The tree lines the operator locks and unlocks.
Lockable == {"B"}

\* Sub-directories a branch root can hold, in sorted(os.listdir()) order:
\* two under A and under T, one under B.  P and Q are the branches the packer is
\* exercised on by itself, with three and with seven sub-directories.
LeafOrder(b) ==
    IF b \in {"A", "T"} THEN <<"x", "y">>
    ELSE IF b = "P" THEN <<"a", "b", "c">>
    ELSE IF b = "Q" THEN <<"a", "b", "c", "d", "e", "f", "g">>
    ELSE <<"x">>
LeafNames(b) == {LeafOrder(b)[i] : i \in 1..Len(LeafOrder(b))}

\* A leaf directory's content is one of 1..MaxContent; 0 is "no such directory".
Contents == 1..MaxContent

\* The contents the leaves of P take: one for each size of 0..MaxSize.
PackContents == (MaxContent + 1)..(MaxContent + 1 + MaxSize)

\* "None" for an object key, for an ETag and for a bag id.
NoKey == << >>
NoEtag == << >>
NoBag == 0

\* The inventory before any branch was recorded: {"branches": {}}.
EmptyInv == << >>

(***************************************************************************)
(* Pure functions                                                          *)
(***************************************************************************)

\* Maximum of a finite set of naturals, 0 for the empty set.
Max(S) == IF S = {} THEN 0 ELSE CHOOSE m \in S : \A n \in S : n <= m

\* get_metadata_hash: (digest, total_size) of a leaf directory.  The digest
\* absorbs every file's rel_path|size|mtime, so it identifies the content;
\* odd contents weigh 1 unit, even contents 2; the contents of P weigh
\* 0..MaxSize units.
get_metadata_hash(c) ==
    [hash |-> c,
     size |-> IF c > MaxContent THEN c - (MaxContent + 1)
              ELSE IF c % 2 = 1 THEN 1 ELSE 2]

\* get_branch_path_info: the tree line of A names a remote source
\* (user@nas:/path), the line of B a local directory.
remote_conn(b) == IF b = "A" THEN "user@nas" ELSE ""

\* check_compression_needed: the line of A carries ::COMPRESS.
check_compression_needed(b) == b = "A"

\* get_branch_path_info: basename of the scan path (a string, as the
\* sequence of its characters; the basename of P holds a space; B and T are
\* two local directories of the same name, /data/b and /backup/b), and the
\* host name.
short_name(b) ==
    IF b = "A" THEN <<"a">>
    ELSE IF b \in {"B", "T"} THEN <<"b">>
    ELSE <<"m", "y", " ", "p">>
hostname(b) == IF remote_conn(b) # "" THEN "nas" ELSE "localhost"

\* mount_remote_branch: the mount point it returns for cleanup, one per
\* remote tree line (MNT_BASE/<host>_<basename>); None, here the empty set,
\* for a local directory.
mount_point(b) == IF remote_conn(b) # "" THEN {b} ELSE {}

\* mount_remote_branch: sshfs mounts the remote source unless the mount
\* point is mounted already.
mount_remote_branch(m, b) == m \cup mount_point(b)

\* unmount_remote_branch: fusermount -u when the mount point is mounted.
unmount_remote_branch(m, mp) == m \ mp

\* unmount_remote_branch left out of the finally clause of process_branch.
NoUnmount(m, b) == m

\* process_branch, the finally clause: the mount point returned by
\* mount_remote_branch, if any, is unmounted.
ReleaseMount(m, b) == unmount_remote_branch(m, mount_point(b))

\* prepare_bag_info: short_name.replace(" ", "_").
safe_prefix(name) == [i \in DOMAIN name |-> IF name[i] = " " THEN "_" ELSE name[i]]

\* prepare_bag_info: the object key of bag bag_num of a branch
\* (S3_PREFIX/<host>_<safe_prefix>_bag_<NNNNN>.tar).
s3_key(b, bag_num) == <<hostname(b), safe_prefix(short_name(b)), bag_num>>

\* handle_repack_cleanup: the objects listed under the prefix
\* S3_PREFIX/<hostname>_<prefix>_bag_ whose number is above bag_counter.
handle_repack_cleanup(host, prefix, bag_counter, bucket) ==
    {k \in DOMAIN bucket : k[1] = host /\ k[2] = prefix /\ k[3] > bag_counter}

\* Text is a sequence of characters.  str.upper() on the letters the tree
\* lines of the model are written with.
UpperOf ==
    ("a" :> "A") @@ ("b" :> "B") @@ ("c" :> "C") @@ ("e" :> "E") @@
    ("n" :> "N") @@ ("p" :> "P") @@ ("r" :> "R") @@ ("t" :> "T") @@
    ("y" :> "Y")
upper(s) == [i \in DOMAIN s |-> IF s[i] \in DOMAIN UpperOf THEN UpperOf[s[i]] ELSE s[i]]

\* s.startswith(sub) from position i, and "sub in s".
StartsAt(s, i, sub) ==
    /\ i + Len(sub) - 1 <= Len(s)
    /\ \A j \in 1..Len(sub) : s[i + j - 1] = sub[j]
Contains(s, sub) == \E i \in 1..(Len(s) + 1) : StartsAt(s, i, sub)

\* str.strip() for blanks.
RECURSIVE lstrip(_)
lstrip(s) == IF s # << >> /\ Head(s) = " " THEN lstrip(Tail(s)) ELSE s
RECURSIVE rstrip(_)
rstrip(s) ==
    IF s # << >> /\ s[Len(s)] = " " THEN rstrip(SubSeq(s, 1, Len(s) - 1)) ELSE s
strip(s) == rstrip(lstrip(s))

\* str.split(sep): the pieces between the occurrences of sep, left to right.
RECURSIVE split(_, _)
split(s, sep) ==
    IF ~Contains(s, sep) THEN <<s>>
    ELSE LET i == CHOOSE k \in 1..Len(s) :
                     /\ StartsAt(s, k, sep)
                     /\ \A j \in 1..(k - 1) : ~StartsAt(s, j, sep)
         IN <<SubSeq(s, 1, i - 1)>> \o split(SubSeq(s, i + Len(sep), Len(s)), sep)

\* " ".join(parts)
RECURSIVE join(_)
join(parts) ==
    IF parts = << >> THEN << >>
    ELSE IF Len(parts) = 1 THEN parts[1]
    ELSE parts[1] \o <<" ">> \o join(Tail(parts))

TagSep == <<" ", ":", ":">>
EXCLUDE_ == <<"E", "X", "C", "L", "U", "D", "E", " ">>
ENCRYPT == <<"E", "N", "C", "R", "Y", "P", "T">>
ENCRYPT_TRIGGER == <<":", ":">> \o ENCRYPT

\* parse_branch_line: the path and the tags of a tree line.  The line is cut
\* at every " ::"; each piece after the path is stripped and, unless it is an
\* EXCLUDE, upper-cased; the tags are joined by blanks.
parse_branch_line(branch_line) ==
    IF Contains(branch_line, TagSep)
    THEN LET parts == split(branch_line, TagSep)
             stripped == [i \in 1..(Len(parts) - 1) |-> strip(parts[i + 1])]
             kept == SelectSeq(stripped, LAMBDA p : ~StartsAt(p, 1, EXCLUDE_))
             clean_tags == [i \in DOMAIN kept |-> upper(kept[i])]
         IN [branch_path |-> strip(parts[1]), full_tags |-> join(clean_tags)]
    ELSE [branch_path |-> strip(branch_line),
          full_tags |-> <<"M", "U", "T", "A", "B", "L", "E">>]

\* check_encryption_needed: "ENCRYPT" in line_metadata.
check_encryption_needed(line_metadata) == Contains(line_metadata, ENCRYPT)

\* validate_encryption_config, step 1: "::ENCRYPT" in the text of the tree file.
needs_crypto(tree_text) == Contains(tree_text, ENCRYPT_TRIGGER)

\* validate_encryption_config, step 2: the run may go on when no trigger is
\* found or key.txt exists and is not empty.
KeyStates == {"missing", "empty", "ok"}
encryption_config_valid(tree_text, key) == needs_crypto(tree_text) => key = "ok"

\* validate_encryption_config, the return value: the path of key.txt when
\* the trigger is found, None otherwise.
NoPassphrase == << >>
validate_encryption_config(tree_text) ==
    IF needs_crypto(tree_text) THEN <<"key.txt">> ELSE NoPassphrase

\* validate_encryption_parameters with the password method, the default of
\* load_encryption_config.
validate_encryption_parameters(passphrase_file) == passphrase_file # NoPassphrase

\* is_action_permitted: a LOCKED line denies MIRROR, FORCE, DELETE and REPACK.
is_action_permitted(lockedSet, line, action) ==
    ~(line \in lockedSet /\ action \in {"MIRROR", "FORCE", "DELETE", "REPACK"})

\* Leaves of the catalog entry of branch b ({} when the branch is unknown).
LeavesOf(inv, b) == IF b \in DOMAIN inv THEN inv[b].leaves ELSE << >>

\* Every bag number held by a leaf of a function of leaf entries.
BagNums(leaves) == {leaves[l].tar_id : l \in DOMAIN leaves} \ {NoBag}

\* Every bag number held anywhere in the inventory.
AllBagNums(inv) == UNION {BagNums(inv[b].leaves) : b \in DOMAIN inv}

\* identify_leaves (MUTABLE): the sub-directories present, sorted.
identify_leaves(tree, b) == SelectSeq(LeafOrder(b), LAMBDA l : tree[b][l] # 0)

\* A scan that forgets the seat of a known leaf.
ScanEntryUnseated(branch_leaves, l, c, is_repack) ==
    LET known == l \in DOMAIN branch_leaves
        meta == get_metadata_hash(c)
        is_changed == IF known THEN branch_leaves[l].last_metadata_hash # meta.hash
                      ELSE TRUE
        stored == IF known THEN branch_leaves[l].needs_upload ELSE TRUE
    IN [last_metadata_hash |-> meta.hash,
        needs_upload |-> IF is_repack THEN TRUE ELSE is_changed \/ stored,
        size_bytes |-> meta.size,
        tar_id |-> NoBag,
        archive_key |-> IF known /\ ~is_changed THEN branch_leaves[l].archive_key
                        ELSE NoKey,
        etag |-> NoEtag]

\* A scan that forgets that a stored leaf was still queued for upload.
ScanEntryChangedOnly(branch_leaves, l, c, is_repack) ==
    LET known == l \in DOMAIN branch_leaves
        meta == get_metadata_hash(c)
        is_changed == IF known THEN branch_leaves[l].last_metadata_hash # meta.hash
                      ELSE TRUE
    IN [last_metadata_hash |-> meta.hash,
        needs_upload |-> IF is_repack THEN TRUE ELSE is_changed,
        size_bytes |-> meta.size,
        tar_id |-> IF known THEN branch_leaves[l].tar_id ELSE NoBag,
        archive_key |-> IF known /\ ~is_changed THEN branch_leaves[l].archive_key
                        ELSE NoKey,
        etag |-> NoEtag]

\* scan_and_update_inventory, one leaf: the entry written for a found leaf.
\* The entry is rebuilt from scratch: tar_id is carried over, archive_key is
\* carried over unless the fingerprint changed, etag is not carried over.
ScanEntry(branch_leaves, l, c, is_repack) ==
    LET known == l \in DOMAIN branch_leaves
        meta == get_metadata_hash(c)
        is_changed == IF known THEN branch_leaves[l].last_metadata_hash # meta.hash
                      ELSE TRUE
        stored == IF known THEN branch_leaves[l].needs_upload ELSE TRUE
    IN [last_metadata_hash |-> meta.hash,
        needs_upload |-> IF is_repack THEN TRUE ELSE is_changed \/ stored,
        size_bytes |-> meta.size,
        tar_id |-> IF known THEN branch_leaves[l].tar_id ELSE NoBag,
        archive_key |-> IF known /\ ~is_changed THEN branch_leaves[l].archive_key
                        ELSE NoKey,
        etag |-> NoEtag]

\* scan_and_update_inventory: branch_leaves after the scan of the found
\* leaves; entries of leaves that were not found stay as they are.
scan_and_update_inventory(found, branch_leaves, tree, b, is_repack) ==
    LET F == {found[i] : i \in 1..Len(found)}
    IN [l \in DOMAIN branch_leaves \cup F |->
           IF l \in F THEN ScanEntry(branch_leaves, l, tree[b][l], is_repack)
           ELSE branch_leaves[l]]

\* A starting counter that always takes the next global number.
StartCounterNextGlobal(inv, branch_leaves, is_repack) ==
    IF is_repack THEN 1 ELSE Max(AllBagNums(inv)) + 1

\* assign_bags_to_leaves, the starting counter: 1 in repack mode; otherwise
\* the branch's own highest bag, or the global highest + 1 for a branch that
\* holds no bag.
StartCounter(inv, branch_leaves, is_repack) ==
    IF is_repack THEN 1
    ELSE IF BagNums(branch_leaves) = {} THEN Max(AllBagNums(inv)) + 1
         ELSE Max(BagNums(branch_leaves))

\* Sum of size_bytes over the leaves of the set S.
RECURSIVE SumSize(_, _)
SumSize(leaves, S) ==
    IF S = {} THEN 0
    ELSE LET l == CHOOSE k \in S : TRUE
         IN leaves[l].size_bytes + SumSize(leaves, S \ {l})

\* assign_bags_to_leaves, the initial current_bag_size: what the branch
\* already holds in the bag the counter starts at (0 in repack mode).
StartSize(branch_leaves, bag_counter, is_repack) ==
    IF is_repack THEN 0
    ELSE SumSize(branch_leaves,
                 {l \in DOMAIN branch_leaves : branch_leaves[l].tar_id = bag_counter})

\* The packing loop with the bag closed on an exact fit (>= for >).
RECURSIVE AssignLoopClosesOnFit(_, _, _, _, _, _)
AssignLoopClosesOnFit(found, i, bag_counter, current_bag_size, branch_leaves, is_repack) ==
    IF i > Len(found) THEN [leaves |-> branch_leaves, bag_counter |-> bag_counter]
    ELSE LET l == found[i]
             size == branch_leaves[l].size_bytes
         IN IF ~is_repack /\ branch_leaves[l].tar_id # NoBag
            THEN AssignLoopClosesOnFit(found, i + 1, bag_counter, current_bag_size,
                                       branch_leaves, is_repack)
            ELSE LET advance == (current_bag_size + size >= TARGET_SIZE_BYTES)
                                    /\ current_bag_size > 0
                     counter == IF advance THEN bag_counter + 1 ELSE bag_counter
                     cur == IF advance THEN 0 ELSE current_bag_size
                 IN AssignLoopClosesOnFit(found, i + 1, counter, cur + size,
                                          [branch_leaves EXCEPT ![l].tar_id = counter],
                                          is_repack)

\* assign_bags_to_leaves, the loop over leaves_to_bag from position i on.
\* In standard mode a leaf that holds a tar_id keeps its reserved seat.
RECURSIVE AssignLoop(_, _, _, _, _, _)
AssignLoop(found, i, bag_counter, current_bag_size, branch_leaves, is_repack) ==
    IF i > Len(found) THEN [leaves |-> branch_leaves, bag_counter |-> bag_counter]
    ELSE LET l == found[i]
             size == branch_leaves[l].size_bytes
         IN IF ~is_repack /\ branch_leaves[l].tar_id # NoBag
            THEN AssignLoop(found, i + 1, bag_counter, current_bag_size,
                            branch_leaves, is_repack)
            ELSE LET advance == (current_bag_size + size > TARGET_SIZE_BYTES)
                                    /\ current_bag_size > 0
                     counter == IF advance THEN bag_counter + 1 ELSE bag_counter
                     cur == IF advance THEN 0 ELSE current_bag_size
                 IN AssignLoop(found, i + 1, counter, cur + size,
                               [branch_leaves EXCEPT ![l].tar_id = counter],
                               is_repack)

\* assign_bags_to_leaves: branch_leaves with the new seats, and bag_counter.
\* inv is the whole inventory with this branch's leaves already scanned.
assign_bags_to_leaves(found, inv, branch_leaves, is_repack) ==
    LET start == StartCounter(inv, branch_leaves, is_repack)
    IN AssignLoop(found, 1, start, StartSize(branch_leaves, start, is_repack),
                  branch_leaves, is_repack)

\* The inventory with the leaves of branch b replaced (the branch is created
\* with no last_scan when it is new: inventory["branches"][line] = {"leaves": {}}).
WithLeaves(inv, b, leaves) ==
    [k \in DOMAIN inv \cup {b} |->
        IF k = b THEN [leaves |-> leaves,
                       last_scan |-> IF b \in DOMAIN inv THEN inv[b].last_scan ELSE 0]
        ELSE inv[k]]

\* Sorted sequence of a finite set of naturals.
RECURSIVE SortedSeq(_)
SortedSeq(S) ==
    IF S = {} THEN << >>
    ELSE LET m == CHOOSE x \in S : \A y \in S : x <= y
         IN <<m>> \o SortedSeq(S \ {m})

\* group_leaves_by_bag: the found leaves seated in bag n, in scan order.
LeafList(found, branch_leaves, n) ==
    SelectSeq(found, LAMBDA l : branch_leaves[l].tar_id = n)

\* process_branch_bags: the bag numbers of the found leaves, ascending.
sorted_bag_ids(found, branch_leaves) ==
    SortedSeq({branch_leaves[found[i]].tar_id : i \in 1..Len(found)})

\* should_upload_bag: some leaf of the bag needs upload.
should_upload_bag(leaf_list, branch_leaves) ==
    \E i \in 1..Len(leaf_list) : branch_leaves[leaf_list[i]].needs_upload

\* update_inventory_locations: every leaf of the bag points at the key.
update_inventory_locations(leaf_list, branch_leaves, key) ==
    [l \in DOMAIN branch_leaves |->
        IF \E i \in 1..Len(leaf_list) : leaf_list[i] = l
        THEN [branch_leaves[l] EXCEPT !.archive_key = key]
        ELSE branch_leaves[l]]

\* upload_to_s3: the ETag head_object returns for the uploaded container, a
\* digest of the bytes packed: the branch root and each packed leaf's content.
ETagOf(tree, b, leaf_list) ==
    <<b, {<<leaf_list[i], tree[b][leaf_list[i]]>> : i \in 1..Len(leaf_list)}>>

\* commit_to_inventory, the in-memory part: the leaves of the bag are marked
\* uploaded and carry the verifier.
CommitLeaves(leaf_list, branch_leaves, e) ==
    [l \in DOMAIN branch_leaves |->
        IF \E i \in 1..Len(leaf_list) : leaf_list[i] = l
        THEN [branch_leaves[l] EXCEPT !.needs_upload = FALSE, !.etag = e]
        ELSE branch_leaves[l]]

\* The bucket with object key k (over)written with an object of ETag e.
Put(bucket, k, e) ==
    [j \in DOMAIN bucket \cup {k} |-> IF j = k THEN e ELSE bucket[j]]

\* The bucket without the objects of the key set K.
Remove(bucket, K) == [j \in DOMAIN bucket \ K |-> bucket[j]]

\* LastModified of the objects after a step that only removes objects.
Kept(lm, bucket) == [k \in DOMAIN bucket |-> lm[k]]

\* LastModified of the objects after a step that stores object k on a day.
Touch(lm, k, day) == [j \in DOMAIN lm \cup {k} |-> IF j = k THEN day ELSE lm[j]]

(***************************************************************************)
(* State                                                                   *)
(***************************************************************************)

VARIABLES
    fs,          \* fs[b][l]: content of sub-directory l of branch root b, 0 if absent
    locked,      \* branches whose tree line carries ::LOCKED
    disk,        \* the inventory file: [state: missing|ok|partial, inv]
    s3,          \* the bucket: object key -> ETag
    pc,          \* position of the running invocation ("idle": none runs)
    args,        \* command line of the running invocation
    inventory,   \* the in-memory inventory of the running invocation
    loaded,      \* the inventory as load_inventory returned it
    branchQ,     \* tree lines the mirror loop has still to process
    bagQ,        \* bag numbers process_branch_bags has still to process
    etag,        \* verifier returned by the upload that awaits its commit
    runs,        \* invocations so far; also the clock last_scan is read from
    staging,     \* the artifacts lying in STAGING_DIR
    tag_text,    \* what follows the path on the tree line of branch B
    key_file,    \* the passphrase file key.txt: missing, empty or ok
    log_dir,     \* the directory logs/ of the audit log: ok, no_write or no_dir
    last_modified, \* LastModified of each object of the bucket, as a day
    packed_leaf, \* the leaf definition a bag was built from (restore round trip)
    bag_path,    \* the downloaded bag file that process_local_restore unpacks
    dest_root,   \* the files under the restore destination
    leaf_dir,    \* the regular files of one leaf directory: name -> size, mtime
    last_scanned, \* what the last scan of leaf_dir saw, and its fingerprint
    mounted,     \* the mount points under MNT_BASE that hold an sshfs mount
    remote_branch, \* a tree line naming a remote source: branch_path, logic_type
    staged_leaf  \* the last call of stage_remote_leaf: leaf path, rsync source

vars == <<fs, locked, disk, s3, pc, args, inventory, loaded, branchQ, bagQ,
          etag, runs, staging, tag_text, key_file, log_dir, last_modified,
          packed_leaf, bag_path, dest_root, leaf_dir, last_scanned, mounted,
          remote_branch, staged_leaf>>

NoArgs == [cmd |-> "none", run |-> FALSE, target |-> ""]

\* No leaf has been packed; no bag file lies in the staging directory.
NoLeaf == [branch |-> "", is_branch_root |-> FALSE, files |-> {}]
NoFile == [fmt |-> "none"]

\* A leaf directory without files; no scan has fingerprinted it yet.
NoFiles == << >>
NoScan == [files |-> NoFiles, hash |-> <<"?">>]

\* No remote tree line is under test; stage_remote_leaf has not been called.
NoBranch == [branch_path |-> << >>, logic_type |-> "MUTABLE"]
NoStaged == [local_leaf_path |-> << >>, true_remote_src |-> << >>]

Init ==
    /\ fs = [b \in Branches |-> [l \in LeafNames(b) |-> 0]]
    /\ locked = {}
    /\ disk = [state |-> "missing", inv |-> EmptyInv]
    /\ s3 = << >>
    /\ pc = "idle"
    /\ args = NoArgs
    /\ inventory = EmptyInv
    /\ loaded = EmptyInv
    /\ branchQ = << >>
    /\ bagQ = << >>
    /\ etag = NoEtag
    /\ runs = 0
    /\ staging = {}
    /\ tag_text = << >>
    /\ key_file = "missing"
    /\ log_dir = "ok"
    /\ last_modified = [k \in DOMAIN s3 |-> 0]
    /\ packed_leaf = NoLeaf
    /\ bag_path = NoFile
    /\ dest_root = {}
    /\ leaf_dir = NoFiles
    /\ last_scanned = NoScan
    /\ mounted = {}
    /\ remote_branch = NoBranch
    /\ staged_leaf = NoStaged


(***************************************************************************)
(* Operations of main() on the loaded inventory                            *)
(***************************************************************************)

\* main, before the command dispatch: a live run empties the staging
\* directory of what earlier runs left (comp_*, stage_*, enc_*, bundle_*, *.tar).
cleanup_staging_dir(dir, live) == IF live THEN {} ELSE dir

\* The tree file: the line of A is "a ::COMPRESS", the line of B is its path
\* followed by tag_text, the lines of the other branches are bare paths.
branch_line(b) ==
    short_name(b) \o (IF b = "A"
                      THEN <<" ", ":", ":", "C", "O", "M", "P", "R", "E", "S", "S">>
                      ELSE IF b = "B" THEN tag_text ELSE << >>)
tree_text == branch_line("A") \o <<"\n">> \o branch_line("B")

\* process_branch: the designator of a branch is the full_tags of its line.
designator(b) == parse_branch_line(branch_line(b)).full_tags
needs_encrypt(b) == check_encryption_needed(designator(b))

\* main: PASSPHRASE_FILE as validate_encryption_config returned it.
PASSPHRASE_FILE == validate_encryption_config(tree_text)

\* load_inventory: the document on disk, or a fresh one when the file is
\* missing (a malformed file is fatal, see MalformedInventory).
load_inventory(file) == IF file.state = "ok" THEN file.inv ELSE EmptyInv

\* main, the standard loop: the tree lines that pass the MIRROR guard and,
\* with --mirror-branch, match the target path ("" is target_only = None).
MirrorLoopLines(lockedSet, target_only) ==
    SelectSeq(tree_lines,
              LAMBDA line : /\ is_action_permitted(lockedSet, line, "MIRROR")
                            /\ (target_only = "" \/ line = target_only))

\* perform_rebag, step 1: the (branch, leaf) pairs seated in a target bag.
leaves_to_reset(inv, ids) ==
    {bl \in UNION {{<<b, l>> : l \in DOMAIN inv[b].leaves} : b \in DOMAIN inv} :
        inv[bl[1]].leaves[bl[2]].tar_id \in ids}

\* perform_rebag, step 4: the object keys it deletes on a live run.
RebagKeys(inv, ids) ==
    {inv[bl[1]].leaves[bl[2]].archive_key : bl \in leaves_to_reset(inv, ids)} \ {NoKey}

\* perform_rebag, step 4: the inventory after the reset (requeue) or the
\* removal (delete mode) of the leaves of the target bags.
perform_rebag(inv, ids, requeue) ==
    [b \in DOMAIN inv |->
        [inv[b] EXCEPT !.leaves =
            IF requeue
            THEN [l \in DOMAIN inv[b].leaves |->
                    IF inv[b].leaves[l].tar_id \in ids
                    THEN [inv[b].leaves[l] EXCEPT !.needs_upload = TRUE,
                                                  !.tar_id = NoBag,
                                                  !.archive_key = NoKey]
                    ELSE inv[b].leaves[l]]
            ELSE [l \in {k \in DOMAIN inv[b].leaves : inv[b].leaves[k].tar_id \notin ids}
                    |-> inv[b].leaves[l]]]]

\* perform_branch_reset, step 2: the object keys the leaves of a branch name.
BranchKeys(inv, b) ==
    {inv[b].leaves[l].archive_key : l \in DOMAIN LeavesOf(inv, b)} \ {NoKey}

\* perform_branch_reset, step 5: the branch is removed from the inventory.
perform_branch_reset(inv, B) == [b \in DOMAIN inv \ B |-> inv[b]]

\* perform_prune, steps 1-2: the bucket's bag objects no leaf mentions.
PruneOrphans(inv, bucket) ==
    DOMAIN bucket \ UNION {BranchKeys(inv, b) : b \in DOMAIN inv}

\* perform_prune, step 3: the guard against early deletion fees.
EARLY_DELETE_DAYS == 180

\* get_s3_file_age: whole days since LastModified.
get_s3_file_age(lm, key, now) == now - lm[key]

\* perform_prune, step 3: the orphans staged for deletion; with check_age
\* the orphans younger than 180 days are skipped.
keys_to_delete(inv, bucket, lm, check_age, now) ==
    {k \in PruneOrphans(inv, bucket) :
        ~(check_age /\ get_s3_file_age(lm, k, now) < EARLY_DELETE_DAYS)}

\* get_scan_interval, in invocation periods (the clock ticks once per run).
scan_interval == 2

\* A last_scan is a day (an integer other than 0), 0 when none is recorded,
\* or Unparsable: a text datetime.fromisoformat rejects with ValueError.
Unparsable == 99

\* is_branch_due_for_scan, with a mistaken comparison: due only when the age
\* is above the interval.
BranchDueAboveInterval(inv, line, now) ==
    \/ line \notin DOMAIN inv
    \/ inv[line].last_scan = 0
    \/ inv[line].last_scan = Unparsable
    \/ now - inv[line].last_scan > scan_interval

\* is_branch_due_for_scan: never scanned, a stamp that cannot be parsed, or
\* last scanned at least an interval of whole days ago.
is_branch_due_for_scan(inv, line, now) ==
    \/ line \notin DOMAIN inv
    \/ inv[line].last_scan = 0
    \/ inv[line].last_scan = Unparsable
    \/ now - inv[line].last_scan >= scan_interval

\* run_smart_cron: the due lines that pass the MIRROR guard.
CronLines(inv, lockedSet, now) ==
    SelectSeq(tree_lines,
              LAMBDA line : /\ is_branch_due_for_scan(inv, line, now)
                            /\ is_action_permitted(lockedSet, line, "MIRROR"))

(***************************************************************************)
(* Environment: the mirrored tree and the operator, between invocations     *)
(***************************************************************************)

\* A sub-directory is created, modified or removed (observed only while
\* another invocation can follow).
LeafChange(b, l, c) ==
    /\ runs < MaxRuns
    /\ pc = "idle"
    /\ c # fs[b][l]
    /\ fs' = [fs EXCEPT ![b][l] = c]
    /\ UNCHANGED <<locked, disk, s3, pc, args, inventory, loaded, branchQ, bagQ,
                   etag, runs, staging, tag_text, key_file, log_dir,
                   last_modified, packed_leaf, bag_path, dest_root,
                   leaf_dir, last_scanned, mounted,
                   remote_branch, staged_leaf>>

\* The operator adds ::LOCKED to a tree line or removes it.
EditTree(b) ==
    /\ runs < MaxRuns
    /\ pc = "idle"
    /\ locked' = IF b \in locked THEN locked \ {b} ELSE locked \cup {b}
    /\ UNCHANGED <<fs, disk, s3, pc, args, inventory, loaded, branchQ, bagQ,
                   etag, runs, staging, tag_text, key_file, log_dir,
                   last_modified, packed_leaf, bag_path, dest_root,
                   leaf_dir, last_scanned, mounted,
                   remote_branch, staged_leaf>>

(***************************************************************************)
(* An invocation                                                           *)
(***************************************************************************)

\* The process ends with the given status; its memory is gone.
Exit ==
    /\ pc' = "idle"
    /\ args' = NoArgs
    /\ inventory' = EmptyInv
    /\ loaded' = EmptyInv
    /\ branchQ' = << >>
    /\ bagQ' = << >>
    /\ etag' = NoEtag

\* main up to the command dispatch: a new process, the inventory is loaded.
Begin ==
    /\ runs < MaxRuns
    /\ pc = "idle"
    /\ disk.state # "partial"
    /\ encryption_config_valid(tree_text, key_file)
    /\ runs' = runs + 1
    /\ loaded' = load_inventory(disk)

\* main enters the mirror loop over the given lines.
EnterLoop(live, lines) ==
    /\ pc' = "branch"
    /\ args' = [cmd |-> "mirror", run |-> live, target |-> ""]
    /\ branchQ' = lines
    /\ bagQ' = << >>
    /\ etag' = NoEtag

\* load_inventory taking a malformed file for a missing one: the run starts
\* a live mirror of the tree on a fresh inventory.
MalformedInventoryStartsFresh ==
    /\ runs < MaxRuns
    /\ pc = "idle"
    /\ disk.state = "partial"
    /\ runs' = runs + 1
    /\ loaded' = EmptyInv
    /\ inventory' = EmptyInv
    /\ EnterLoop(TRUE, MirrorLoopLines(locked, ""))
    /\ UNCHANGED <<fs, locked, disk, s3, staging, tag_text, key_file, log_dir,
                   last_modified, packed_leaf, bag_path, dest_root,
                   leaf_dir, last_scanned, mounted,
                   remote_branch, staged_leaf>>

\* validate_encryption_config finds the trigger and no usable key.txt:
\* sys.exit(1) before the tree lines are read.
EncryptionConfigInvalid ==
    /\ runs < MaxRuns
    /\ pc = "idle"
    /\ disk.state # "partial"
    /\ ~encryption_config_valid(tree_text, key_file)
    /\ runs' = runs + 1
    /\ UNCHANGED <<fs, locked, disk, s3, pc, args, inventory, loaded, branchQ,
                   bagQ, etag, staging, tag_text, key_file, log_dir,
                   last_modified, packed_leaf, bag_path, dest_root,
                   leaf_dir, last_scanned, mounted,
                   remote_branch, staged_leaf>>

\* load_inventory on a malformed file: sys.exit(1), nothing is touched.
MalformedInventory ==
    /\ runs < MaxRuns
    /\ pc = "idle"
    /\ disk.state = "partial"
    /\ runs' = runs + 1
    /\ UNCHANGED <<fs, locked, disk, s3, pc, args, inventory, loaded, branchQ,
                   bagQ, etag, staging, tag_text, key_file, log_dir,
                   last_modified, packed_leaf, bag_path, dest_root,
                   leaf_dir, last_scanned, mounted,
                   remote_branch, staged_leaf>>

\* --repack: main reads args.reset_branch, which the parser never defines;
\* the AttributeError is caught by main's handler, which exits 1.
Repack(live) ==
    /\ runs < MaxRuns
    /\ pc = "idle"
    /\ runs' = runs + 1
    /\ UNCHANGED <<fs, locked, disk, s3, pc, args, inventory, loaded, branchQ,
                   bagQ, etag, staging, tag_text, key_file, log_dir,
                   last_modified, packed_leaf, bag_path, dest_root,
                   leaf_dir, last_scanned, mounted,
                   remote_branch, staged_leaf>>

\* --mirror-tree [--run]
MirrorTree(live) ==
    /\ Begin
    /\ inventory' = load_inventory(disk)
    /\ EnterLoop(live, MirrorLoopLines(locked, ""))
    /\ UNCHANGED <<fs, locked, disk, s3, tag_text, key_file, log_dir,
                   last_modified, packed_leaf, bag_path, dest_root,
                   leaf_dir, last_scanned, mounted,
                   remote_branch, staged_leaf>>
    /\ staging' = cleanup_staging_dir(staging, live)

\* --cron [--run]
Cron(live) ==
    /\ Begin
    /\ inventory' = load_inventory(disk)
    /\ EnterLoop(live, CronLines(load_inventory(disk), locked, runs + 1))
    /\ UNCHANGED <<fs, locked, disk, s3, tag_text, key_file, log_dir,
                   last_modified, packed_leaf, bag_path, dest_root,
                   leaf_dir, last_scanned, mounted,
                   remote_branch, staged_leaf>>
    /\ staging' = cleanup_staging_dir(staging, live)

\* process_branch up to group_leaves_by_bag: scan, pack, group.
ProcessBranch ==
    /\ pc = "branch"
    /\ branchQ # << >>
    /\ LET b == Head(branchQ)
           found == identify_leaves(fs, b)
           scanned == scan_and_update_inventory(found, LeavesOf(inventory, b),
                                                fs, b, FALSE)
           packed == assign_bags_to_leaves(found, WithLeaves(inventory, b, scanned),
                                           scanned, FALSE)
       IN /\ inventory' = WithLeaves(inventory, b, packed.leaves)
          /\ bagQ' = sorted_bag_ids(found, packed.leaves)
    /\ pc' = "bag"
    /\ UNCHANGED <<fs, locked, disk, s3, args, loaded, branchQ, etag, runs,
                   staging, tag_text, key_file, log_dir, last_modified,
                   packed_leaf, bag_path, dest_root,
                   leaf_dir, last_scanned,
                   remote_branch, staged_leaf>>
    /\ mounted' = mount_remote_branch(mounted, Head(branchQ))

\* The leaves process_bag is called with for the bag at the head of bagQ.
CurLeafList ==
    LeafList(identify_leaves(fs, Head(branchQ)),
             inventory[Head(branchQ)].leaves, Head(bagQ))

\* process_bag, step 4: no leaf of the bag needs upload.
SkipBag ==
    /\ pc = "bag"
    /\ bagQ # << >>
    /\ ~should_upload_bag(CurLeafList, inventory[Head(branchQ)].leaves)
    /\ bagQ' = Tail(bagQ)
    /\ UNCHANGED <<fs, locked, disk, s3, pc, args, inventory, loaded, branchQ,
                   etag, runs, staging, tag_text, key_file, log_dir,
                   last_modified, packed_leaf, bag_path, dest_root,
                   leaf_dir, last_scanned, mounted,
                   remote_branch, staged_leaf>>

\* process_bag, steps 6-7 of a dry run: the expected key is noted in memory.
DryRunBag ==
    /\ pc = "bag"
    /\ bagQ # << >>
    /\ ~args.run
    /\ LET b == Head(branchQ)
       IN /\ should_upload_bag(CurLeafList, inventory[b].leaves)
          /\ inventory' = WithLeaves(inventory, b,
                 update_inventory_locations(CurLeafList, inventory[b].leaves,
                                            s3_key(b, Head(bagQ))))
    /\ bagQ' = Tail(bagQ)
    /\ UNCHANGED <<fs, locked, disk, s3, pc, args, loaded, branchQ, etag, runs,
                   staging, tag_text, key_file, log_dir, last_modified,
                   packed_leaf, bag_path, dest_root,
                   leaf_dir, last_scanned, mounted,
                   remote_branch, staged_leaf>>

\* process_bag, steps 6-8 of a live run: build_and_upload_bag puts the
\* container under the bag's key and returns the verifier.
UploadBag ==
    /\ pc = "bag"
    /\ bagQ # << >>
    /\ args.run
    /\ LET b == Head(branchQ)
           key == s3_key(b, Head(bagQ))
           e == ETagOf(fs, b, CurLeafList)
       IN /\ should_upload_bag(CurLeafList, inventory[b].leaves)
          /\ inventory' = WithLeaves(inventory, b,
                 update_inventory_locations(CurLeafList, inventory[b].leaves, key))
          /\ s3' = Put(s3, key, e)
          /\ last_modified' = Touch(last_modified, key, runs)
          /\ etag' = e
    /\ pc' = "uploaded"
    /\ UNCHANGED <<fs, locked, disk, args, loaded, branchQ, bagQ, runs,
                   staging, tag_text, key_file, log_dir,
                   packed_leaf, bag_path, dest_root,
                   leaf_dir, last_scanned, mounted,
                   remote_branch, staged_leaf>>

\* commit_to_inventory: the leaves are marked in memory and the inventory
\* file is opened for writing, which truncates it.
CommitBag ==
    /\ pc = "uploaded"
    /\ LET b == Head(branchQ)
       IN inventory' = WithLeaves(inventory, b,
              CommitLeaves(CurLeafList, inventory[b].leaves, etag))
    /\ disk' = [state |-> "partial", inv |-> EmptyInv]
    /\ pc' = "saving_bag"
    /\ UNCHANGED <<fs, locked, s3, args, loaded, branchQ, bagQ, etag, runs,
                   staging, tag_text, key_file, log_dir, last_modified,
                   packed_leaf, bag_path, dest_root,
                   leaf_dir, last_scanned, mounted,
                   remote_branch, staged_leaf>>

\* commit_to_inventory when open() raises: the handler prints a warning and
\* the loop goes on with the next bag; the file is as it was.
CommitBagSaveFails ==
    /\ pc = "uploaded"
    /\ LET b == Head(branchQ)
       IN inventory' = WithLeaves(inventory, b,
              CommitLeaves(CurLeafList, inventory[b].leaves, etag))
    /\ bagQ' = Tail(bagQ)
    /\ etag' = NoEtag
    /\ pc' = "bag"
    /\ UNCHANGED <<fs, locked, disk, s3, args, loaded, branchQ, runs, staging,
                   tag_text, key_file, log_dir, last_modified,
                   packed_leaf, bag_path, dest_root,
                   leaf_dir, last_scanned, mounted,
                   remote_branch, staged_leaf>>

\* commit_to_inventory: json.dump has written the whole document.
FinishSaveBag ==
    /\ pc = "saving_bag"
    /\ disk' = [state |-> "ok", inv |-> inventory]
    /\ bagQ' = Tail(bagQ)
    /\ etag' = NoEtag
    /\ pc' = "bag"
    /\ UNCHANGED <<fs, locked, s3, args, inventory, loaded, branchQ, runs,
                   staging, tag_text, key_file, log_dir, last_modified,
                   packed_leaf, bag_path, dest_root,
                   leaf_dir, last_scanned, mounted,
                   remote_branch, staged_leaf>>

\* process_branch after the last bag: last_scan is set in memory.
EndBranch ==
    /\ pc = "bag"
    /\ bagQ = << >>
    /\ inventory' = [inventory EXCEPT ![Head(branchQ)].last_scan = runs]
    /\ branchQ' = Tail(branchQ)
    /\ pc' = "branch"
    /\ UNCHANGED <<fs, locked, disk, s3, args, loaded, bagQ, etag, runs,
                   staging, tag_text, key_file, log_dir, last_modified,
                   packed_leaf, bag_path, dest_root,
                   leaf_dir, last_scanned,
                   remote_branch, staged_leaf>>
    /\ mounted' = ReleaseMount(mounted, Head(branchQ))

\* main after the last tree line: the process exits 0.
Finish ==
    /\ pc = "branch"
    /\ branchQ = << >>
    /\ Exit
    /\ UNCHANGED <<fs, locked, disk, s3, runs, staging, tag_text, key_file,
                   log_dir, last_modified, packed_leaf, bag_path, dest_root,
                   leaf_dir, last_scanned, mounted,
                   remote_branch, staged_leaf>>

\* The process is killed (signal, power loss) at any point of a run.
Crash ==
    /\ pc # "idle"
    /\ Exit
    /\ UNCHANGED <<fs, locked, disk, s3, runs, staging, tag_text, key_file,
                   log_dir, last_modified, packed_leaf, bag_path, dest_root,
                   leaf_dir, last_scanned, mounted,
                   remote_branch, staged_leaf>>

(***************************************************************************)
(* Bag and branch commands                                                 *)
(***************************************************************************)

\* main, bag logic: the branches the trace of the first target bag can end
\* at.  The trace stops at the first inventory branch, in dict order, with a
\* leaf in that bag; the order of the dict is not part of the state, so any
\* branch holding the bag may be the one.
ParentBranches(inv, first_bag) ==
    {b \in DOMAIN inv : first_bag \in BagNums(inv[b].leaves)}

\* main, bag logic: the guard passes when the first target bag is in no
\* branch, or when the branch it is traced to permits the action.
BagPermitted(inv, first_bag, delete_only) ==
    \/ ParentBranches(inv, first_bag) = {}
    \/ \E parent \in ParentBranches(inv, first_bag) :
          is_action_permitted(locked, parent,
                              IF delete_only THEN "FORCE" ELSE "MIRROR")

\* The bag ids a command line can name: the ids in use and one that is not.
BagArgs == 1..(Max(AllBagNums(load_inventory(disk))) + 1)

\* --mirror-bag / --delete-bag on a bag traced to a LOCKED line: exit 1.
BagForbidden(first_bag, delete_only, live) ==
    /\ runs < MaxRuns
    /\ pc = "idle"
    /\ disk.state # "partial"
    /\ \E parent \in ParentBranches(load_inventory(disk), first_bag) :
          ~is_action_permitted(locked, parent,
                               IF delete_only THEN "FORCE" ELSE "MIRROR")
    /\ runs' = runs + 1
    /\ UNCHANGED <<fs, locked, disk, s3, pc, args, inventory, loaded, branchQ,
                   bagQ, etag, tag_text, key_file, log_dir, last_modified,
                   packed_leaf, bag_path, dest_root,
                   leaf_dir, last_scanned, mounted,
                   remote_branch, staged_leaf>>
    /\ staging' = cleanup_staging_dir(staging, live)

\* --mirror-bag / --delete-bag, confirmed by the operator: perform_rebag
\* deletes the objects (live) and resets or removes the leaves in memory.
BagPurge(first_bag, others, delete_only, live) ==
    LET inv == load_inventory(disk)
        ids == {first_bag} \cup others
    IN /\ Begin
       /\ BagPermitted(inv, first_bag, delete_only)
       /\ leaves_to_reset(inv, ids) # {}
       /\ inventory' = perform_rebag(inv, ids, ~delete_only)
       /\ s3' = IF live THEN Remove(s3, RebagKeys(inv, ids)) ELSE s3
       /\ last_modified' = Kept(last_modified, s3')
       /\ IF live \/ delete_only
          THEN /\ pc' = IF live THEN "purged" ELSE "exiting"
               /\ args' = [cmd |-> IF delete_only THEN "delete" ELSE "mirror",
                           run |-> live, target |-> ""]
               /\ UNCHANGED <<branchQ, bagQ, etag>>
          ELSE EnterLoop(live, MirrorLoopLines(locked, ""))
       /\ UNCHANGED <<fs, locked, disk, tag_text, key_file, log_dir,
                      packed_leaf, bag_path, dest_root,
                      leaf_dir, last_scanned, mounted,
                      remote_branch, staged_leaf>>
       /\ staging' = cleanup_staging_dir(staging, live)

\* --mirror-bag / --delete-bag when perform_rebag returns False (no leaf in
\* the bags, or the operator declines): main falls through to the mirror loop.
BagFallThrough(first_bag, others, delete_only, live) ==
    LET inv == load_inventory(disk)
    IN /\ Begin
       /\ BagPermitted(inv, first_bag, delete_only)
       /\ inventory' = inv
       /\ EnterLoop(live, MirrorLoopLines(locked, ""))
       /\ UNCHANGED <<fs, locked, disk, s3, tag_text, key_file, log_dir,
                      last_modified, packed_leaf, bag_path, dest_root,
                      leaf_dir, last_scanned, mounted,
                      remote_branch, staged_leaf>>
       /\ staging' = cleanup_staging_dir(staging, live)

\* --mirror-branch / --delete-branch on a LOCKED line: exit 1.
BranchForbidden(name, delete_only, live) ==
    /\ runs < MaxRuns
    /\ pc = "idle"
    /\ disk.state # "partial"
    /\ ~is_action_permitted(locked, name, IF delete_only THEN "FORCE" ELSE "MIRROR")
    /\ runs' = runs + 1
    /\ UNCHANGED <<fs, locked, disk, s3, pc, args, inventory, loaded, branchQ,
                   bagQ, etag, tag_text, key_file, log_dir, last_modified,
                   packed_leaf, bag_path, dest_root,
                   leaf_dir, last_scanned, mounted,
                   remote_branch, staged_leaf>>
    /\ staging' = cleanup_staging_dir(staging, live)

\* --mirror-branch NAME [--run]: the loop over the one matching line.
MirrorBranch(name, live) ==
    /\ Begin
    /\ is_action_permitted(locked, name, "MIRROR")
    /\ inventory' = load_inventory(disk)
    /\ EnterLoop(live, MirrorLoopLines(locked, name))
    /\ UNCHANGED <<fs, locked, disk, s3, tag_text, key_file, log_dir,
                   last_modified, packed_leaf, bag_path, dest_root,
                   leaf_dir, last_scanned, mounted,
                   remote_branch, staged_leaf>>
    /\ staging' = cleanup_staging_dir(staging, live)

\* --delete-branch NAME, or --mirror-branch NAME --force-reset: the
\* destructive phase.  perform_branch_reset purges the branch on a confirmed
\* live run; main then saves the inventory when the result is not False.
BranchPurge(name, delete_only, live, confirm) ==
    LET inv == load_inventory(disk)
        purge == live /\ confirm /\ name \in DOMAIN inv
        result == name \notin DOMAIN inv \/ confirm
    IN /\ Begin
       /\ is_action_permitted(locked, name, "FORCE")
       /\ inventory' = IF purge THEN perform_branch_reset(inv, {name}) ELSE inv
       /\ s3' = IF purge THEN Remove(s3, BranchKeys(inv, name)) ELSE s3
       /\ last_modified' = Kept(last_modified, s3')
       /\ IF (result /\ live) \/ delete_only
          THEN /\ pc' = IF result /\ live THEN "purged" ELSE "exiting"
               /\ args' = [cmd |-> IF delete_only THEN "delete" ELSE "mirror",
                           run |-> live,
                           target |-> IF delete_only THEN "" ELSE name]
               /\ UNCHANGED <<branchQ, bagQ, etag>>
          ELSE EnterLoop(live, MirrorLoopLines(locked, name))
       /\ UNCHANGED <<fs, locked, disk, tag_text, key_file, log_dir,
                      packed_leaf, bag_path, dest_root,
                      leaf_dir, last_scanned, mounted,
                      remote_branch, staged_leaf>>
       /\ staging' = cleanup_staging_dir(staging, live)

\* perform_tree_delete, step 1: the inventory branches that pass the guard.
unlocked_branches(inv, lockedSet) ==
    {b \in DOMAIN inv : is_action_permitted(lockedSet, b, "FORCE")}

\* --delete-tree: the operator confirms the purge as a whole and then each
\* branch of the set C; main saves the inventory on a live run.
DeleteTree(live, C) ==
    LET inv == load_inventory(disk)
    IN /\ Begin
       /\ args' = [cmd |-> "delete", run |-> live, target |-> ""]
       /\ C # {}
       /\ C \subseteq unlocked_branches(inv, locked)
       /\ inventory' = IF live THEN perform_branch_reset(inv, C) ELSE inv
       /\ s3' = IF live THEN Remove(s3, UNION {BranchKeys(inv, b) : b \in C}) ELSE s3
       /\ last_modified' = Kept(last_modified, s3')
       /\ pc' = IF live THEN "purged" ELSE "exiting"
       /\ UNCHANGED <<fs, locked, disk, branchQ, bagQ, etag,
                      tag_text, key_file, log_dir,
                      packed_leaf, bag_path, dest_root,
                      leaf_dir, last_scanned, mounted,
                      remote_branch, staged_leaf>>
       /\ staging' = cleanup_staging_dir(staging, live)

\* perform_prune with the do_delete gate left out: a dry run deletes too.
PruneUngated(live) ==
    /\ Begin
    /\ args' = [cmd |-> "prune", run |-> live, target |-> ""]
    /\ inventory' = load_inventory(disk)
    /\ s3' = Remove(s3, PruneOrphans(load_inventory(disk), s3))
    /\ last_modified' = Kept(last_modified, s3')
    /\ pc' = "exiting"
    /\ UNCHANGED <<fs, locked, disk, branchQ, bagQ, etag, tag_text, key_file,
                   log_dir,
                   packed_leaf, bag_path, dest_root,
                   leaf_dir, last_scanned, mounted,
                   remote_branch, staged_leaf>>
    /\ staging' = cleanup_staging_dir(staging, live)

\* --prune [--run]: perform_prune(inventory, args.run, False) removes the
\* bag objects no leaf mentions; the age check is switched off.
Prune(live) ==
    /\ Begin
    /\ args' = [cmd |-> "prune", run |-> live, target |-> ""]
    /\ inventory' = load_inventory(disk)
    /\ s3' = IF live
             THEN Remove(s3, keys_to_delete(load_inventory(disk), s3, last_modified,
                                            FALSE, runs + 1))
             ELSE s3
    /\ last_modified' = Kept(last_modified, s3')
    /\ pc' = "exiting"
    /\ UNCHANGED <<fs, locked, disk, branchQ, bagQ, etag, tag_text, key_file,
                   log_dir,
                   packed_leaf, bag_path, dest_root,
                   leaf_dir, last_scanned, mounted,
                   remote_branch, staged_leaf>>
    /\ staging' = cleanup_staging_dir(staging, live)

\* main after a purge: open(INVENTORY_FILE, 'w') truncates the file.
OpenSavePurge ==
    /\ pc = "purged"
    /\ disk' = [state |-> "partial", inv |-> EmptyInv]
    /\ pc' = "saving_purge"
    /\ UNCHANGED <<fs, locked, s3, args, inventory, loaded, branchQ, bagQ, etag,
                   runs, staging, tag_text, key_file, log_dir, last_modified,
                   packed_leaf, bag_path, dest_root,
                   leaf_dir, last_scanned, mounted,
                   remote_branch, staged_leaf>>

\* main after a purge: json.dump has written the whole document; a delete
\* command exits, a mirror command goes on to the mirror loop.
FinishSavePurge ==
    /\ pc = "saving_purge"
    /\ disk' = [state |-> "ok", inv |-> inventory]
    /\ IF args.cmd = "delete"
       THEN /\ pc' = "exiting"
            /\ UNCHANGED <<args, branchQ, bagQ, etag>>
       ELSE EnterLoop(args.run, MirrorLoopLines(locked, args.target))
    /\ UNCHANGED <<fs, locked, s3, inventory, loaded, runs, staging,
                   tag_text, key_file, log_dir, last_modified,
                   packed_leaf, bag_path, dest_root,
                   leaf_dir, last_scanned, mounted,
                   remote_branch, staged_leaf>>

\* sys.exit(0) of a delete or prune command.
ExitCommand ==
    /\ pc = "exiting"
    /\ Exit
    /\ UNCHANGED <<fs, locked, disk, s3, runs, staging, tag_text, key_file,
                   log_dir, last_modified, packed_leaf, bag_path, dest_root,
                   leaf_dir, last_scanned, mounted,
                   remote_branch, staged_leaf>>

(***************************************************************************)
(* Specification                                                           *)
(***************************************************************************)

Environment ==
    \/ \E b \in Branches : \E l \in LeafNames(b), c \in 0..MaxContent : LeafChange(b, l, c)
    \/ \E b \in Lockable : EditTree(b)

Start ==
    \/ MalformedInventory
    \/ \E live \in BOOLEAN : Repack(live)
    \/ \E live \in BOOLEAN : MirrorTree(live)
    \/ \E live \in BOOLEAN : Cron(live)
    \/ \E name \in Branches, live \in BOOLEAN : MirrorBranch(name, live)
    \/ \E name \in Branches, d \in BOOLEAN, live \in BOOLEAN : BranchForbidden(name, d, live)
    \/ \E name \in Branches, d \in BOOLEAN, live \in BOOLEAN, c \in BOOLEAN :
          BranchPurge(name, d, live, c)
    \/ \E n \in BagArgs, d \in BOOLEAN, live \in BOOLEAN : BagForbidden(n, d, live)
    \/ \E n \in BagArgs : \E o \in SUBSET (BagArgs \ {n}) :
          \E d \in BOOLEAN, live \in BOOLEAN : BagPurge(n, o, d, live)
    \/ \E n \in BagArgs : \E o \in SUBSET (BagArgs \ {n}) :
          \E d \in BOOLEAN, live \in BOOLEAN : BagFallThrough(n, o, d, live)
    \/ \E live \in BOOLEAN, C \in SUBSET Branches : DeleteTree(live, C)
    \/ \E live \in BOOLEAN : Prune(live)

\* At most MaxRuns invocations in one behaviour.
Next ==
    \/ Environment
    \/ Start
    \/ ProcessBranch
    \/ SkipBag
    \/ DryRunBag
    \/ UploadBag
    \/ CommitBag
    \/ CommitBagSaveFails
    \/ FinishSaveBag
    \/ EndBranch
    \/ Finish
    \/ OpenSavePurge
    \/ FinishSavePurge
    \/ ExitCommand
    \/ Crash

Spec == Init /\ [][Next]_vars

\* Mirror runs only (--mirror-tree, --mirror-branch; dry or live) that run to
\* their end: no kill, no failing save, no purge command, no LOCKED tag.
NextMirror ==
    \/ \E b \in Branches : \E l \in LeafNames(b), c \in 0..MaxContent : LeafChange(b, l, c)
    \/ \E live \in BOOLEAN : MirrorTree(live)
    \/ \E name \in Branches, live \in BOOLEAN : MirrorBranch(name, live)
    \/ ProcessBranch
    \/ SkipBag
    \/ DryRunBag
    \/ UploadBag
    \/ CommitBag
    \/ FinishSaveBag
    \/ EndBranch
    \/ Finish

SpecMirror == Init /\ [][NextMirror]_vars

(***************************************************************************)
(* One call of process_branch on branch A, scan then pack, from any stored   *)
(* catalog: the functions scan_and_update_inventory and                      *)
(* assign_bags_to_leaves with their inputs drawn from bounded sets.  main     *)
(* never passes is_repack = True (see Repack); the functions take it.        *)
(***************************************************************************)

\* Highest bag id a drawn catalog holds.
MaxBag == 2

\* The entries the inventory file can hold for a leaf of branch b: one not
\* yet committed (no key), or a committed one (seated, with its key).
StoredEntries(b) ==
    {[last_metadata_hash |-> h, needs_upload |-> TRUE,
      size_bytes |-> get_metadata_hash(h).size, tar_id |-> t,
      archive_key |-> NoKey, etag |-> NoEtag] : h \in Contents, t \in 0..MaxBag}
    \cup
    {[last_metadata_hash |-> h, needs_upload |-> FALSE,
      size_bytes |-> get_metadata_hash(h).size, tar_id |-> t,
      archive_key |-> s3_key(b, t), etag |-> NoEtag] : h \in Contents, t \in 1..MaxBag}

\* The leaves a stored branch can hold: any subset of its leaf names, each
\* with any stored entry.
StoredLeaves(b) ==
    UNION {[S -> StoredEntries(b)] : S \in SUBSET LeafNames(b)}

\* The catalogs drawn: branch A with any stored leaves, branch B unknown or
\* holding one committed leaf.
StoredInventories ==
    {WithLeaves(EmptyInv, "A", la) : la \in StoredLeaves("A")}
    \cup
    {[k \in {"A", "B"} |->
        [leaves |-> IF k = "A" THEN la ELSE [l \in {"x"} |-> eb], last_scan |-> 1]] :
        la \in StoredLeaves("A"),
        eb \in {e \in StoredEntries("B") : ~e.needs_upload /\ e.last_metadata_hash = 1}}

InitBranch ==
    /\ fs \in {[b \in Branches |-> IF b = "A" THEN fa ELSE [l \in LeafNames(b) |-> 0]] :
                fa \in [LeafNames("A") -> 0..MaxContent]}
    /\ inventory \in StoredInventories
    /\ args \in {[cmd |-> c, run |-> FALSE, target |-> ""] : c \in {"mirror", "repack"}}
    /\ loaded = inventory
    /\ disk = [state |-> "ok", inv |-> inventory]
    /\ locked = {}
    /\ s3 = << >>
    /\ pc = "call"
    /\ branchQ = <<"A">>
    /\ bagQ = << >>
    /\ etag = NoEtag
    /\ runs = 1
    /\ staging = {}
    /\ tag_text = << >>
    /\ key_file = "missing"
    /\ log_dir = "ok"
    /\ last_modified = [k \in DOMAIN s3 |-> 0]
    /\ packed_leaf = NoLeaf
    /\ bag_path = NoFile
    /\ dest_root = {}
    /\ leaf_dir = NoFiles
    /\ last_scanned = NoScan
    /\ mounted = {}
    /\ remote_branch = NoBranch
    /\ staged_leaf = NoStaged

\* process_branch, step 2: scan_and_update_inventory.
Scan ==
    /\ pc = "call"
    /\ LET b == Head(branchQ)
       IN inventory' = WithLeaves(inventory, b,
              scan_and_update_inventory(identify_leaves(fs, b), LeavesOf(inventory, b),
                                        fs, b, args.cmd = "repack"))
    /\ pc' = "scanned"
    /\ UNCHANGED <<fs, locked, disk, s3, args, loaded, branchQ, bagQ, etag, runs,
                   staging, tag_text, key_file, log_dir, last_modified,
                   packed_leaf, bag_path, dest_root,
                   leaf_dir, last_scanned, mounted,
                   remote_branch, staged_leaf>>

\* process_branch, step 3: assign_bags_to_leaves and the grouping by bag.
Pack ==
    /\ pc = "scanned"
    /\ LET b == Head(branchQ)
           found == identify_leaves(fs, b)
           packed == assign_bags_to_leaves(found, inventory, inventory[b].leaves,
                                           args.cmd = "repack")
       IN /\ inventory' = WithLeaves(inventory, b, packed.leaves)
          /\ bagQ' = sorted_bag_ids(found, packed.leaves)
    /\ pc' = "packed"
    /\ UNCHANGED <<fs, locked, disk, s3, args, loaded, branchQ, etag, runs,
                   staging, tag_text, key_file, log_dir, last_modified,
                   packed_leaf, bag_path, dest_root,
                   leaf_dir, last_scanned, mounted,
                   remote_branch, staged_leaf>>

NextBranch == Scan \/ Pack

SpecBranch == InitBranch /\ [][NextBranch]_vars

(***************************************************************************)
(* One call of process_branch on branch P, scan then pack, in either mode:  *)
(* three leaves of any size of 0..MaxSize, each new to the catalog, queued  *)
(* or committed in a bag, or gone from the tree and still in the catalog.   *)
(***************************************************************************)

\* The entries the inventory file can hold for a leaf of P of fingerprint h.
PackEntries(h) ==
    {[last_metadata_hash |-> h, needs_upload |-> TRUE,
      size_bytes |-> get_metadata_hash(h).size, tar_id |-> t,
      archive_key |-> NoKey, etag |-> NoEtag] : t \in 0..MaxBag}
    \cup
    {[last_metadata_hash |-> h, needs_upload |-> FALSE,
      size_bytes |-> get_metadata_hash(h).size, tar_id |-> t,
      archive_key |-> s3_key("P", t), etag |-> NoEtag] : t \in 1..MaxBag}

\* The catalogs drawn for a tree: a leaf in the tree is unknown or stored
\* with its fingerprint; a leaf not in the tree is unknown or stored with the
\* smallest fingerprint.
PackInventories(tree) ==
    {WithLeaves(EmptyInv, "P", la) :
        la \in {f \in UNION {[S -> UNION {PackEntries(h) : h \in PackContents}] :
                              S \in SUBSET LeafNames("P")} :
                  \A l \in DOMAIN f :
                      f[l].last_metadata_hash =
                          IF tree[l] # 0 THEN tree[l] ELSE MaxContent + 1}}

InitPack ==
    /\ fs \in {[b \in {"P"} |-> fp] : fp \in [LeafNames("P") -> {0} \cup PackContents]}
    /\ inventory \in PackInventories(fs["P"])
    /\ args \in {[cmd |-> c, run |-> FALSE, target |-> ""] : c \in {"mirror", "repack"}}
    /\ loaded = inventory
    /\ disk = [state |-> "ok", inv |-> inventory]
    /\ locked = {}
    /\ s3 = << >>
    /\ pc = "call"
    /\ branchQ = <<"P">>
    /\ bagQ = << >>
    /\ etag = NoEtag
    /\ runs = 1
    /\ staging = {}
    /\ tag_text = << >>
    /\ key_file = "missing"
    /\ log_dir = "ok"
    /\ last_modified = [k \in DOMAIN s3 |-> 0]
    /\ packed_leaf = NoLeaf
    /\ bag_path = NoFile
    /\ dest_root = {}
    /\ leaf_dir = NoFiles
    /\ last_scanned = NoScan
    /\ mounted = {}
    /\ remote_branch = NoBranch
    /\ staged_leaf = NoStaged

SpecPack == InitPack /\ [][NextBranch]_vars

(***************************************************************************)
(* One call of process_branch on branch Q, new to an empty catalog: seven   *)
(* leaves of any size of 0..MaxSize.                                         *)
(***************************************************************************)

InitMany ==
    /\ fs \in {[b \in {"Q"} |-> fq] : fq \in [LeafNames("Q") -> PackContents]}
    /\ inventory = EmptyInv
    /\ args \in {[cmd |-> c, run |-> FALSE, target |-> ""] : c \in {"mirror", "repack"}}
    /\ loaded = inventory
    /\ disk = [state |-> "missing", inv |-> EmptyInv]
    /\ locked = {}
    /\ s3 = << >>
    /\ pc = "call"
    /\ branchQ = <<"Q">>
    /\ bagQ = << >>
    /\ etag = NoEtag
    /\ runs = 1
    /\ staging = {}
    /\ tag_text = << >>
    /\ key_file = "missing"
    /\ log_dir = "ok"
    /\ last_modified = [k \in DOMAIN s3 |-> 0]
    /\ packed_leaf = NoLeaf
    /\ bag_path = NoFile
    /\ dest_root = {}
    /\ leaf_dir = NoFiles
    /\ last_scanned = NoScan
    /\ mounted = {}
    /\ remote_branch = NoBranch
    /\ staged_leaf = NoStaged

SpecMany == InitMany /\ [][NextBranch]_vars

(***************************************************************************)
(* One live run over branch A from any stored catalog, with the steps of   *)
(* build_and_upload_bag taken one by one: the leaves are staged and         *)
(* compressed, the container is packed, uploaded and removed, the bag is    *)
(* committed.  Staging, packing and the upload can each fail.               *)
(***************************************************************************)

\* compress_leaf: the artifact comp_<leaf_id>.tar.gz of a leaf in STAGING_DIR.
comp_file(b, l, c) ==
    [kind |-> "comp", branch |-> b, bag |-> 0, members |-> {<<l, c>>}]

\* encrypt_leaf: the artifact enc_<leaf_id>.gpg of a leaf in STAGING_DIR.
enc_file(b, l, c) ==
    [kind |-> "enc", branch |-> b, bag |-> 0, members |-> {<<l, c>>}]

\* prepare_bag_info / build_tar_archive: the container of a bag in
\* STAGING_DIR, holding the given (leaf, content) members.
tar_file(b, n, members) ==
    [kind |-> "tar", branch |-> b, bag |-> n, members |-> members]

\* process_leaves_for_tar: tar_sequence, the members the per-leaf artifacts
\* of a branch hold together.
tar_sequence(dir, b) ==
    UNION {f.members : f \in {g \in dir : g.kind \in {"comp", "enc"} /\ g.branch = b}}

\* cleanup_files: the container and the per-leaf artifacts of the bag are
\* removed.
cleanup_files(dir, b, n) ==
    {f \in dir : ~(f.branch = b /\ (f.kind \in {"comp", "enc"} \/ f.bag = n))}

\* The leaves of the bag at the head of bagQ, as a set.
CurLeaves == {CurLeafList[i] : i \in 1..Len(CurLeafList)}

\* process_leaves_for_tar and generate_final_tar_command: what tar is told to
\* pack.  The leaves of an ENCRYPT or COMPRESS branch go in as their staged
\* artifacts, the leaves of a plain branch as their directories.
container_members(dir, tree, b, leaves) ==
    IF needs_encrypt(b) \/ check_compression_needed(b)
    THEN tar_sequence(dir, b)
    ELSE {<<l, tree[b][l]>> : l \in leaves}

\* process_bag, steps 5-7, and process_leaves_for_tar of a live run.  On an
\* ENCRYPT branch each leaf is encrypted (encrypt_leaf), on a COMPRESS branch
\* staged and compressed (compress_leaf), on a plain branch passed through.
\* For the leaves of F the stager or gpg fails (rsync exit 23, another
\* non-zero exit, a lost connection), and with no passphrase file every
\* encrypt_leaf fails: the function returns None and process_encrypted_leaf
\* and process_compressed_leaf add nothing to tar_sequence.
ProcessLeaves(F) ==
    /\ pc = "bag"
    /\ bagQ # << >>
    /\ args.run
    /\ LET b == Head(branchQ)
       IN /\ should_upload_bag(CurLeafList, inventory[b].leaves)
          /\ F \subseteq CurLeaves
          /\ F # {} => \/ needs_encrypt(b)
                       \/ check_compression_needed(b) /\ remote_conn(b) # ""
          /\ inventory' = WithLeaves(inventory, b,
                 update_inventory_locations(CurLeafList, inventory[b].leaves,
                                            s3_key(b, Head(bagQ))))
          /\ staging' =
                IF needs_encrypt(b)
                THEN IF validate_encryption_parameters(PASSPHRASE_FILE)
                     THEN staging \cup {enc_file(b, l, fs[b][l]) : l \in CurLeaves \ F}
                     ELSE staging
                ELSE IF check_compression_needed(b)
                THEN staging \cup {comp_file(b, l, fs[b][l]) : l \in CurLeaves \ F}
                ELSE staging
    /\ pc' = "leaves_done"
    /\ UNCHANGED <<fs, locked, disk, s3, args, loaded, branchQ, bagQ, etag, runs,
                   tag_text, key_file, log_dir, last_modified,
                   packed_leaf, bag_path, dest_root,
                   leaf_dir, last_scanned, mounted,
                   remote_branch, staged_leaf>>

\* build_tar_archive, step 3: tar packs the members of tar_sequence into the
\* container (tar refuses to create an empty archive).
TarBag ==
    /\ pc = "leaves_done"
    /\ LET b == Head(branchQ)
           members == container_members(staging, fs, b, CurLeaves)
       IN /\ members # {}
          /\ staging' = staging \cup {tar_file(b, Head(bagQ), members)}
    /\ pc' = "built"
    /\ UNCHANGED <<fs, locked, disk, s3, args, inventory, loaded, branchQ, bagQ,
                   etag, runs, tag_text, key_file, log_dir, last_modified,
                   packed_leaf, bag_path, dest_root,
                   leaf_dir, last_scanned, mounted,
                   remote_branch, staged_leaf>>

\* build_tar_archive when tar exits non-zero: CalledProcessError is raised
\* again, build_and_upload_bag calls it outside its try block, main's handler
\* exits 1.  tar may leave a part of the container behind.
TarFails(partial) ==
    /\ pc = "leaves_done"
    /\ staging' = IF partial
                  THEN staging \cup {tar_file(Head(branchQ), Head(bagQ), {})}
                  ELSE staging
    /\ Exit
    /\ UNCHANGED <<fs, locked, disk, s3, runs, tag_text, key_file, log_dir,
                   last_modified, packed_leaf, bag_path, dest_root,
                   leaf_dir, last_scanned,
                   remote_branch, staged_leaf>>
    /\ mounted' = ReleaseMount(mounted, Head(branchQ))

\* upload_to_s3 and ETagOf on the container as packed.
ETagOfMembers(b, members) == <<b, members>>

\* build_and_upload_bag, upload failure with the cleanup left out.
UploadFailsNoCleanup(stored) ==
    /\ pc = "built"
    /\ LET b == Head(branchQ)
           key == s3_key(b, Head(bagQ))
       IN /\ s3' = IF stored
                   THEN Put(s3, key, ETagOfMembers(b, container_members(staging, fs, b, CurLeaves)))
                   ELSE s3
          /\ last_modified' = IF stored THEN Touch(last_modified, key, runs)
                              ELSE last_modified
    /\ Exit
    /\ UNCHANGED <<fs, locked, disk, runs, staging, tag_text, key_file,
                   log_dir,
                   packed_leaf, bag_path, dest_root,
                   leaf_dir, last_scanned,
                   remote_branch, staged_leaf>>
    /\ mounted' = ReleaseMount(mounted, Head(branchQ))

\* build_and_upload_bag, step 3 (upload_to_s3): upload_file puts the
\* container under the bag's key, head_object returns the verifier.
UploadBagFile ==
    /\ pc = "built"
    /\ LET b == Head(branchQ)
           key == s3_key(b, Head(bagQ))
           e == ETagOfMembers(b, container_members(staging, fs, b, CurLeaves))
       IN /\ s3' = Put(s3, key, e)
          /\ last_modified' = Touch(last_modified, key, runs)
          /\ etag' = e
    /\ pc' = "verified"
    /\ UNCHANGED <<fs, locked, disk, args, inventory, loaded, branchQ, bagQ, runs,
                   staging, tag_text, key_file, log_dir,
                   packed_leaf, bag_path, dest_root,
                   leaf_dir, last_scanned, mounted,
                   remote_branch, staged_leaf>>

\* log_aws_transaction: os.makedirs on logs/ is called ahead of the try
\* block, the append to aws.log inside it.
LogDirStates == {"ok", "no_write", "no_dir"}

\* build_and_upload_bag, steps 4-5: log_upload_success appends the UPLOAD
\* record to aws.log (a write that fails is reported and swallowed by
\* log_aws_transaction), cleanup_files removes the container and the
\* per-leaf artifacts, the verifier is returned to process_bag.
LogUploadSuccess ==
    /\ pc = "verified"
    /\ log_dir # "no_dir"
    /\ staging' = cleanup_files(staging, Head(branchQ), Head(bagQ))
    /\ pc' = "uploaded"
    /\ UNCHANGED <<fs, locked, disk, s3, args, inventory, loaded, branchQ, bagQ,
                   etag, runs, tag_text, key_file, log_dir, last_modified,
                   packed_leaf, bag_path, dest_root,
                   leaf_dir, last_scanned, mounted,
                   remote_branch, staged_leaf>>

\* build_and_upload_bag, step 4 when logs/ cannot be created: os.makedirs
\* raises in log_aws_transaction, the handler of log_upload_success calls
\* log_aws_transaction again, which raises again out of the handler; the
\* except block of build_and_upload_bag runs cleanup_files and sys.exit(1).
LogDirFails ==
    /\ pc = "verified"
    /\ log_dir = "no_dir"
    /\ staging' = cleanup_files(staging, Head(branchQ), Head(bagQ))
    /\ Exit
    /\ UNCHANGED <<fs, locked, disk, s3, runs, tag_text, key_file, log_dir,
                   last_modified, packed_leaf, bag_path, dest_root,
                   leaf_dir, last_scanned,
                   remote_branch, staged_leaf>>
    /\ mounted' = ReleaseMount(mounted, Head(branchQ))

\* build_and_upload_bag, the except block: upload_file raised (nothing is
\* stored) or the head_object after it raised (the object is stored);
\* cleanup_files, then sys.exit(1).
UploadFails(stored) ==
    /\ pc = "built"
    /\ LET b == Head(branchQ)
           key == s3_key(b, Head(bagQ))
       IN /\ s3' = IF stored
                   THEN Put(s3, key, ETagOfMembers(b, container_members(staging, fs, b, CurLeaves)))
                   ELSE s3
          /\ last_modified' = IF stored THEN Touch(last_modified, key, runs)
                              ELSE last_modified
          /\ staging' = cleanup_files(staging, b, Head(bagQ))
    /\ Exit
    /\ UNCHANGED <<fs, locked, disk, runs, tag_text, key_file, log_dir,
                   packed_leaf, bag_path, dest_root,
                   leaf_dir, last_scanned,
                   remote_branch, staged_leaf>>
    /\ mounted' = ReleaseMount(mounted, Head(branchQ))

\* The objects the committed leaves of a catalog point at, each with the
\* verifier of the leaves committed under its key.
StoredBucket(inv) ==
    LET Keys == UNION {BranchKeys(inv, b) : b \in DOMAIN inv}
        Owner(k) == CHOOSE b \in DOMAIN inv : k \in BranchKeys(inv, b)
    IN [k \in Keys |->
          <<Owner(k), {<<l, inv[Owner(k)].leaves[l].last_metadata_hash>> :
                        l \in {m \in DOMAIN inv[Owner(k)].leaves :
                                 inv[Owner(k)].leaves[m].archive_key = k}}>>]

InitBag ==
    /\ fs \in {[b \in Branches |-> IF b = "A" THEN fa ELSE [l \in LeafNames(b) |-> 0]] :
                fa \in [LeafNames("A") -> 0..MaxContent]}
    /\ inventory \in StoredInventories
    /\ args = [cmd |-> "mirror", run |-> TRUE, target |-> ""]
    /\ loaded = inventory
    /\ disk = [state |-> "ok", inv |-> inventory]
    /\ locked = {}
    /\ s3 = StoredBucket(inventory)
    /\ pc = "branch"
    /\ branchQ = <<"A">>
    /\ bagQ = << >>
    /\ etag = NoEtag
    /\ runs = 1
    /\ staging = {}
    /\ tag_text = << >>
    /\ key_file = "missing"
    /\ log_dir \in LogDirStates
    /\ last_modified = [k \in DOMAIN s3 |-> 0]
    /\ packed_leaf = NoLeaf
    /\ bag_path = NoFile
    /\ dest_root = {}
    /\ leaf_dir = NoFiles
    /\ last_scanned = NoScan
    /\ mounted = {}
    /\ remote_branch = NoBranch
    /\ staged_leaf = NoStaged

NextBag ==
    \/ ProcessBranch
    \/ SkipBag
    \/ \E F \in SUBSET LeafNames("A") : ProcessLeaves(F)
    \/ TarBag
    \/ \E partial \in BOOLEAN : TarFails(partial)
    \/ UploadBagFile
    \/ \E stored \in BOOLEAN : UploadFails(stored)
    \/ LogUploadSuccess
    \/ LogDirFails
    \/ CommitBag
    \/ FinishSaveBag
    \/ EndBranch
    \/ Finish

SpecBag == InitBag /\ [][NextBag]_vars

(***************************************************************************)
(* The tail of process_branch in a live repack of branch A or P: the bags   *)
(* of the new packing are uploaded, handle_repack_cleanup runs on a bucket  *)
(* that holds any of the branch's former bags and bags of branch B.         *)
(***************************************************************************)

\* The leaves of a branch as a repack of the tree leaves them in memory.
RepackedLeaves(tree, b) ==
    LET found == identify_leaves(tree, b)
        scanned == scan_and_update_inventory(found, << >>, tree, b, TRUE)
    IN assign_bags_to_leaves(found, WithLeaves(EmptyInv, b, scanned), scanned,
                             TRUE).leaves

InitCleanup ==
    /\ branchQ \in {<<"A">>, <<"P">>}
    /\ fs \in {[b \in {Head(branchQ)} |-> f] :
                f \in [LeafNames(Head(branchQ)) ->
                         {0} \cup (IF Head(branchQ) = "P" THEN PackContents ELSE Contents)]}
    /\ inventory = WithLeaves(EmptyInv, Head(branchQ), RepackedLeaves(fs, Head(branchQ)))
    /\ s3 \in {[k \in K |-> NoEtag] :
                K \in SUBSET ({s3_key(Head(branchQ), n) : n \in 1..(MaxBag + 2)}
                              \cup {s3_key("B", n) : n \in 1..MaxBag})}
    /\ args = [cmd |-> "repack", run |-> TRUE, target |-> ""]
    /\ loaded = EmptyInv
    /\ disk = [state |-> "ok", inv |-> inventory]
    /\ locked = {}
    /\ pc = "bags_done"
    /\ bagQ = << >>
    /\ etag = NoEtag
    /\ runs = 1
    /\ staging = {}
    /\ tag_text = << >>
    /\ key_file = "missing"
    /\ log_dir = "ok"
    /\ last_modified = [k \in DOMAIN s3 |-> 0]
    /\ packed_leaf = NoLeaf
    /\ bag_path = NoFile
    /\ dest_root = {}
    /\ leaf_dir = NoFiles
    /\ last_scanned = NoScan
    /\ mounted = {}
    /\ remote_branch = NoBranch
    /\ staged_leaf = NoStaged

\* process_branch, `if is_repack and is_live: handle_repack_cleanup(hostname,
\* short_name, bag_counter, ...)`: the call passes short_name as it is.
RepackCleanup ==
    /\ pc = "bags_done"
    /\ args.cmd = "repack"
    /\ args.run
    /\ LET b == Head(branchQ)
           bag_counter == assign_bags_to_leaves(identify_leaves(fs, b), inventory,
                                                inventory[b].leaves, TRUE).bag_counter
       IN /\ s3' = Remove(s3, handle_repack_cleanup(hostname(b), short_name(b),
                                                    bag_counter, s3))
          /\ last_modified' = Kept(last_modified, s3')
    /\ pc' = "cleaned"
    /\ UNCHANGED <<fs, locked, disk, args, inventory, loaded, branchQ, bagQ, etag,
                   runs, staging, tag_text, key_file, log_dir,
                   packed_leaf, bag_path, dest_root,
                   leaf_dir, last_scanned, mounted,
                   remote_branch, staged_leaf>>

SpecCleanup == InitCleanup /\ [][RepackCleanup]_vars

(***************************************************************************)
(* Mirror runs over a tree whose line of branch B carries the ENCRYPT tag   *)
(* in one of the spellings below, or no tag, with key.txt missing, empty    *)
(* or usable.                                                               *)
(***************************************************************************)

\* "", " ::ENCRYPT", " :: ENCRYPT", " ::encrypt" and "::ENCRYPT".
TagSpellings ==
    {<< >>,
     <<" ", ":", ":">> \o ENCRYPT,
     <<" ", ":", ":", " ">> \o ENCRYPT,
     <<" ", ":", ":", "e", "n", "c", "r", "y", "p", "t">>,
     <<":", ":">> \o ENCRYPT}

InitCrypt ==
    /\ fs \in {[b \in Branches |-> IF b = "B" THEN fb ELSE [l \in LeafNames(b) |-> 0]] :
                fb \in [LeafNames("B") -> 0..MaxContent]}
    /\ locked = {}
    /\ disk = [state |-> "missing", inv |-> EmptyInv]
    /\ s3 = << >>
    /\ pc = "idle"
    /\ args = NoArgs
    /\ inventory = EmptyInv
    /\ loaded = EmptyInv
    /\ branchQ = << >>
    /\ bagQ = << >>
    /\ etag = NoEtag
    /\ runs = 0
    /\ staging = {}
    /\ tag_text \in TagSpellings
    /\ key_file \in KeyStates
    /\ log_dir = "ok"
    /\ last_modified = [k \in DOMAIN s3 |-> 0]
    /\ packed_leaf = NoLeaf
    /\ bag_path = NoFile
    /\ dest_root = {}
    /\ leaf_dir = NoFiles
    /\ last_scanned = NoScan
    /\ mounted = {}
    /\ remote_branch = NoBranch
    /\ staged_leaf = NoStaged

NextCrypt ==
    \/ \E l \in LeafNames("B"), c \in 0..MaxContent : LeafChange("B", l, c)
    \/ EncryptionConfigInvalid
    \/ \E live \in BOOLEAN : MirrorTree(live)
    \/ ProcessBranch
    \/ SkipBag
    \/ DryRunBag
    \/ \E F \in SUBSET LeafNames("B") : ProcessLeaves(F)
    \/ TarBag
    \/ \E partial \in BOOLEAN : TarFails(partial)
    \/ UploadBagFile
    \/ \E stored \in BOOLEAN : UploadFails(stored)
    \/ LogUploadSuccess
    \/ CommitBag
    \/ FinishSaveBag
    \/ EndBranch
    \/ Finish

SpecCrypt == InitCrypt /\ [][NextCrypt]_vars

(***************************************************************************)
(* Cron runs from any stored catalog: the branches hold any last_scan (none *)
(* recorded, unparsable, a day before or after the first invocation), the   *)
(* leaves of A are committed or unknown, B may carry ::LOCKED.              *)
(***************************************************************************)

\* The stamps a stored branch can hold.
StoredScans == ({0, Unparsable} \cup ((0 - scan_interval)..MaxRuns))

\* Branch A with each leaf unknown or committed to bag 1.
CronLeaves ==
    UNION {[S -> {e \in StoredEntries("A") : ~e.needs_upload /\ e.tar_id = 1}] :
             S \in SUBSET LeafNames("A")}

CronInventories ==
    {[k \in {"A"} |-> [leaves |-> la, last_scan |-> sa]] :
        la \in CronLeaves, sa \in StoredScans}
    \cup
    {[k \in {"A", "B"} |->
        [leaves |-> IF k = "A" THEN la ELSE << >>,
         last_scan |-> IF k = "A" THEN sa ELSE sb]] :
        la \in CronLeaves, sa \in StoredScans, sb \in StoredScans}

InitCron ==
    /\ fs \in {[b \in Branches |-> IF b = "A" THEN fa ELSE [l \in LeafNames(b) |-> 0]] :
                fa \in [LeafNames("A") -> 0..MaxContent]}
    /\ locked \in SUBSET Lockable
    /\ \E inv \in CronInventories :
          /\ disk = [state |-> "ok", inv |-> inv]
          /\ s3 = StoredBucket(inv)
    /\ pc = "idle"
    /\ args = NoArgs
    /\ inventory = EmptyInv
    /\ loaded = EmptyInv
    /\ branchQ = << >>
    /\ bagQ = << >>
    /\ etag = NoEtag
    /\ runs = 0
    /\ staging = {}
    /\ tag_text = << >>
    /\ key_file = "missing"
    /\ log_dir = "ok"
    /\ last_modified = [k \in DOMAIN s3 |-> 0]
    /\ packed_leaf = NoLeaf
    /\ bag_path = NoFile
    /\ dest_root = {}
    /\ leaf_dir = NoFiles
    /\ last_scanned = NoScan
    /\ mounted = {}
    /\ remote_branch = NoBranch
    /\ staged_leaf = NoStaged

NextCron ==
    \/ \E live \in BOOLEAN : Cron(live)
    \/ ProcessBranch
    \/ SkipBag
    \/ DryRunBag
    \/ UploadBag
    \/ CommitBag
    \/ FinishSaveBag
    \/ EndBranch
    \/ Finish

SpecCron == InitCron /\ [][NextCron]_vars

(***************************************************************************)
(* Prune runs, glacier --prune and the standalone prune.py, on a bucket     *)
(* that holds the bags of a stored catalog and orphans, each object stored  *)
(* the day before the first run or about 180 days before it.                *)
(***************************************************************************)

\* The document of the inventory file: the engine writes the catalog under
\* the top-level key "branches".
Document(file) == [branches |-> file.inv]

\* prune.py, step 1: the whitelist is read from
\* inventory['molecular_sources'][*]['atomic_units'][*]['archive_key'].
script_live_bags(doc) ==
    IF "molecular_sources" \in DOMAIN doc
    THEN UNION {{doc.molecular_sources[b].atomic_units[l].archive_key :
                   l \in DOMAIN doc.molecular_sources[b].atomic_units} \ {NoKey} :
                b \in DOMAIN doc.molecular_sources}
    ELSE {}

\* prune.py, steps 3-4: the obsolete bags staged for deletion; U holds the keys
\* whose head_object fails (get_s3_file_age returns None: no guard applies).
script_keys_to_delete(doc, bucket, lm, check_age, now, U) ==
    {k \in DOMAIN bucket \ script_live_bags(doc) :
        ~(check_age /\ k \notin U /\ get_s3_file_age(lm, k, now) < EARLY_DELETE_DAYS)}

\* python prune.py [--delete] [--check-age]: without an inventory file the
\* script returns, a malformed one ends it with the JSONDecodeError.
PruneScript(delete, check_age, U) ==
    /\ runs < MaxRuns
    /\ pc = "idle"
    /\ runs' = runs + 1
    /\ U \subseteq DOMAIN s3
    /\ s3' = IF disk.state = "ok" /\ delete
             THEN Remove(s3, script_keys_to_delete(Document(disk), s3, last_modified,
                                                   check_age, runs + 1, U))
             ELSE s3
    /\ last_modified' = Kept(last_modified, s3')
    /\ UNCHANGED <<fs, locked, disk, pc, args, inventory, loaded, branchQ, bagQ,
                   etag, staging, tag_text, key_file, log_dir,
                   packed_leaf, bag_path, dest_root,
                   leaf_dir, last_scanned, mounted,
                   remote_branch, staged_leaf>>

\* Days an object of the bucket was stored on: the day before the first run,
\* and 179 and 180 days before the first run.
PruneDays == {0, 1 - EARLY_DELETE_DAYS, 0 - EARLY_DELETE_DAYS}

\* Bags in the bucket that the catalog does not mention.
OrphanKeys == {s3_key("A", MaxBag), s3_key("B", 1)}

InitPrune ==
    /\ fs = [b \in Branches |-> [l \in LeafNames(b) |-> 0]]
    /\ locked = {}
    /\ \E la \in CronLeaves, O \in SUBSET OrphanKeys :
          LET inv == WithLeaves(EmptyInv, "A", la)
              stored == StoredBucket(inv)
          IN /\ disk \in {[state |-> "ok", inv |-> inv]} \cup
                         (IF la = << >>
                          THEN {[state |-> "missing", inv |-> EmptyInv]} ELSE {})
             /\ s3 = [k \in DOMAIN stored \cup O |->
                        IF k \in DOMAIN stored THEN stored[k] ELSE <<"A", {}>>]
    /\ last_modified \in [DOMAIN s3 -> PruneDays]
    /\ packed_leaf = NoLeaf
    /\ bag_path = NoFile
    /\ dest_root = {}
    /\ leaf_dir = NoFiles
    /\ last_scanned = NoScan
    /\ mounted = {}
    /\ remote_branch = NoBranch
    /\ staged_leaf = NoStaged
    /\ pc = "idle"
    /\ args = NoArgs
    /\ inventory = EmptyInv
    /\ loaded = EmptyInv
    /\ branchQ = << >>
    /\ bagQ = << >>
    /\ etag = NoEtag
    /\ runs = 0
    /\ staging = {}
    /\ tag_text = << >>
    /\ key_file = "missing"
    /\ log_dir = "ok"

NextPrune ==
    \/ \E live \in BOOLEAN : Prune(live)
    \/ ExitCommand
    \/ \E delete \in BOOLEAN, check_age \in BOOLEAN : \E U \in SUBSET DOMAIN s3 :
          PruneScript(delete, check_age, U)

SpecPrune == InitPrune /\ [][NextPrune]_vars

(***************************************************************************)
(* The restore round trip: one leaf is packed into a bag by                *)
(* build_tar_archive and the bag is unpacked by process_local_restore.     *)
(* A file is a name (the sequence of its characters) with its data; an     *)
(* archive is a value tagged with its format, so that gpg -d, gunzip and   *)
(* tar -x fail on an input of another format.                              *)
(***************************************************************************)

Data(c) == [fmt |-> "data", c |-> c]
TarOf(entries) == [fmt |-> "tar", entries |-> entries]
GzOf(x) == [fmt |-> "gz", body |-> x]
GpgOf(x) == [fmt |-> "gpg", body |-> x]
Broken == [fmt |-> "broken"]

\* str.endswith and str.replace(old, "").
endswith(s, suffix) ==
    /\ Len(s) >= Len(suffix)
    /\ SubSeq(s, Len(s) - Len(suffix) + 1, Len(s)) = suffix

RECURSIVE replace(_, _)
replace(s, old) ==
    IF s = << >> THEN << >>
    ELSE IF Len(s) >= Len(old) /\ SubSeq(s, 1, Len(old)) = old
         THEN replace(SubSeq(s, Len(old) + 1, Len(s)), old)
         ELSE <<Head(s)>> \o replace(Tail(s), old)

DOT_GPG == <<".", "g", "p", "g">>
DOT_GZ == <<".", "g", "z">>
DOT_TGZ == <<".", "t", "g", "z">>
DOT_TAR_GZ == <<".", "t", "a", "r">> \o DOT_GZ
DOT_GZ_GPG == DOT_GZ \o DOT_GPG
BRANCH_ROOT == <<"_", "_", "B", "R", "A", "N", "C", "H", "_", "R", "O", "O", "T", "_", "_">>

\* The directory of the packed leaf under its branch root, and the
\* directory stage_<leaf_id> a remote leaf is synchronised into.
LeafDir == <<"x">>
StageDir == <<"s", "t", "a", "g", "e", "_", "i", "d">>

\* check_compression_needed on the designator of the branch line.
COMPRESS == <<"C", "O", "M", "P", "R", "E", "S", "S">>
needs_compress(b) == Contains(designator(b), COMPRESS)

\* The files of a leaf as they lie under the branch root: relative path
\* and data.
leaf_files(leaf) ==
    {[path |-> IF leaf.is_branch_root THEN <<f.name>> ELSE <<LeafDir, f.name>>,
      body |-> Data(f.data)] : f \in leaf.files}

\* prepare_staging_environment: the base directory the inner archive is
\* taken from; a remote directory leaf is archived from its staging copy.
staging_base(leaf) ==
    IF remote_conn(leaf.branch) # "" /\ ~leaf.is_branch_root
    THEN StageDir ELSE LeafDir

\* build_compression_command and build_tar_command_for_encryption: the
\* listed files from inside the leaf for the branch-root leaf, the base
\* directory from its parent otherwise.
inner_tar(leaf) ==
    TarOf({[path |-> IF leaf.is_branch_root THEN <<f.name>>
                     ELSE <<staging_base(leaf), f.name>>,
            body |-> Data(f.data)] : f \in leaf.files})

\* compress_leaf and encrypt_leaf: the artifact, None (NoFile) when the
\* encryption parameters are invalid.
compress_leaf(leaf) == GzOf(inner_tar(leaf))
encrypt_leaf(leaf, passphrase_file, compress) ==
    IF ~validate_encryption_parameters(passphrase_file) THEN NoFile
    ELSE GpgOf(IF compress THEN GzOf(inner_tar(leaf)) ELSE inner_tar(leaf))

\* process_encrypted_leaf and process_compressed_leaf: the name the
\* artifact gets inside the bag.
inner_name(leaf, suffix) ==
    (IF leaf.is_branch_root THEN BRANCH_ROOT ELSE LeafDir) \o suffix

\* process_leaves_for_tar and build_tar_archive for a bag of one leaf.
build_tar_archive(leaf, passphrase_file) ==
    LET b == leaf.branch
        enc == encrypt_leaf(leaf, passphrase_file, needs_compress(b))
    IN IF needs_encrypt(b)
       THEN TarOf(IF enc = NoFile THEN {}
                  ELSE {[path |-> <<inner_name(leaf, IF needs_compress(b)
                                                      THEN DOT_GZ_GPG
                                                      ELSE DOT_GPG)>>,
                         body |-> enc]})
       ELSE IF needs_compress(b)
       THEN TarOf({[path |-> <<inner_name(leaf, DOT_TAR_GZ)>>,
                    body |-> compress_leaf(leaf)]})
       ELSE TarOf(leaf_files(leaf))

\* The stages of the restore pipeline; each fails on another format.
gpg_d(x) == IF x.fmt = "gpg" THEN x.body ELSE Broken
gunzip(x) == IF x.fmt = "gz" THEN x.body ELSE Broken
tar_x(x, final_dest) ==
    IF x.fmt = "tar"
    THEN {[path |-> final_dest \o e.path, body |-> e.body] : e \in x.entries}
    ELSE {}

\* process_local_restore, the body of the loop over the files found in
\* the unpacked bag: the pipeline is chosen by the extensions of the name.
extract_leaf(e, passphrase_file) ==
    LET file == e.path[Len(e.path)]
        rel_dir == SubSeq(e.path, 1, Len(e.path) - 1)
        decrypts == endswith(file, DOT_GPG)
        base_name == replace(file, DOT_GPG)
        gunzips == endswith(base_name, DOT_GZ) \/ endswith(base_name, DOT_TGZ)
        decrypted == IF decrypts THEN gpg_d(e.body) ELSE e.body
        unzipped == IF gunzips THEN gunzip(decrypted) ELSE decrypted
    IN IF decrypts /\ passphrase_file = NoPassphrase THEN {}
       ELSE tar_x(unzipped, rel_dir)

\* process_local_restore: what lies under dest_root afterwards.
process_local_restore(bag, passphrase_file) ==
    IF bag.fmt # "tar" THEN {}
    ELSE UNION {extract_leaf(e, passphrase_file) : e \in bag.entries}

\* main builds the bag of the packed leaf (a mirror run, taken as one step).
BuildLeafBag ==
    /\ pc = "idle"
    /\ bag_path = NoFile
    /\ dest_root = {}
    /\ bag_path' = build_tar_archive(packed_leaf, PASSPHRASE_FILE)
    /\ UNCHANGED <<fs, locked, disk, s3, pc, args, inventory, loaded, branchQ,
                   bagQ, etag, runs, staging, tag_text, key_file, log_dir,
                   last_modified, packed_leaf, dest_root,
                   leaf_dir, last_scanned, mounted,
                   remote_branch, staged_leaf>>

\* perform_restore_orchestration for a thawed bag: process_local_restore,
\* then os.remove of the downloaded file.
LocalRestore ==
    /\ pc = "idle"
    /\ bag_path # NoFile
    /\ dest_root' = process_local_restore(bag_path, PASSPHRASE_FILE)
    /\ bag_path' = NoFile
    /\ UNCHANGED <<fs, locked, disk, s3, pc, args, inventory, loaded, branchQ,
                   bagQ, etag, runs, staging, tag_text, key_file, log_dir,
                   last_modified, packed_leaf,
                   leaf_dir, last_scanned, mounted,
                   remote_branch, staged_leaf>>

\* The user empties the restore destination.
ClearDest ==
    /\ pc = "idle"
    /\ bag_path = NoFile
    /\ dest_root # {}
    /\ dest_root' = {}
    /\ UNCHANGED <<fs, locked, disk, s3, pc, args, inventory, loaded, branchQ,
                   bagQ, etag, runs, staging, tag_text, key_file, log_dir,
                   last_modified, packed_leaf, bag_path,
                   leaf_dir, last_scanned, mounted,
                   remote_branch, staged_leaf>>

RestoreTags ==
    {<< >>,
     <<" ", ":", ":">> \o COMPRESS,
     <<" ", ":", ":">> \o ENCRYPT,
     <<" ", ":", ":">> \o ENCRYPT \o <<" ", ":", ":">> \o COMPRESS}
FileNames == {<<"f">>, <<"g">>}
LeafFileSets ==
    {fl \in SUBSET [name : FileNames, data : 1..MaxContent] :
        /\ fl # {}
        /\ \A f, g \in fl : f.name = g.name => f = g}

InitRestore ==
    /\ fs = [b \in Branches |-> [l \in LeafNames(b) |-> 0]]
    /\ locked = {}
    /\ disk = [state |-> "missing", inv |-> EmptyInv]
    /\ s3 = << >>
    /\ pc = "idle"
    /\ args = NoArgs
    /\ inventory = EmptyInv
    /\ loaded = EmptyInv
    /\ branchQ = << >>
    /\ bagQ = << >>
    /\ etag = NoEtag
    /\ runs = 0
    /\ staging = {}
    /\ tag_text \in RestoreTags
    /\ key_file \in {k \in KeyStates : encryption_config_valid(tree_text, k)}
    /\ log_dir = "ok"
    /\ last_modified = [k \in DOMAIN s3 |-> 0]
    /\ packed_leaf \in [branch : {"A", "B"}, is_branch_root : BOOLEAN,
                        files : LeafFileSets]
    /\ bag_path = NoFile
    /\ dest_root = {}
    /\ leaf_dir = NoFiles
    /\ last_scanned = NoScan
    /\ mounted = {}
    /\ remote_branch = NoBranch
    /\ staged_leaf = NoStaged

NextRestore ==
    \/ BuildLeafBag
    \/ LocalRestore
    \/ ClearDest

SpecRestore == InitRestore /\ [][NextRestore]_vars

(***************************************************************************)
(* The fingerprint of one leaf directory.  get_metadata_hash feeds the     *)
(* hash one record rel_path|size|mtime per included file, in sorted order  *)
(* and with nothing between two records; the fingerprint is taken as the   *)
(* text fed to the hash.  Names are texts over the alphabet Chars, sizes   *)
(* are integers, an mtime is a number of hundredths of a second.           *)
(***************************************************************************)

MaxFiles == 2

\* The code points that order two names in sorted().
Chars == <<"1", "a", "|">>
ord(ch) == CHOOSE i \in 1..Len(Chars) : Chars[i] = ch

\* str < str of Python: lexicographic by code point, a proper prefix first.
RECURSIVE str_less(_, _)
str_less(s, t) ==
    IF t = << >> THEN FALSE
    ELSE IF s = << >> THEN TRUE
    ELSE IF Head(s) = Head(t) THEN str_less(Tail(s), Tail(t))
    ELSE ord(Head(s)) < ord(Head(t))

RECURSIVE sorted(_)
sorted(names) ==
    IF names = {} THEN << >>
    ELSE LET first == CHOOSE n \in names : \A m \in names \ {n} : str_less(n, m)
         IN <<first>> \o sorted(names \ {first})

\* str(int): the decimal digits.
Digit(d) == <<"0", "1", "2", "3", "4", "5", "6", "7", "8", "9">>[d + 1]
RECURSIVE str_int(_)
str_int(n) ==
    IF n < 10 THEN <<Digit(n)>> ELSE str_int(n \div 10) \o <<Digit(n % 10)>>

\* str(float) of an mtime with at most two decimals: 1.0, 1.1, 1.01.
str_float(m) ==
    LET frac == m % 100
    IN str_int(m \div 100) \o <<".">> \o
       (IF frac % 10 = 0 THEN <<Digit(frac \div 10)>>
        ELSE <<Digit(frac \div 10), Digit(frac % 10)>>)

\* get_metadata_hash: meta_str of one file.
meta_str(name, stat) ==
    name \o <<"|">> \o str_int(stat.st_size) \o <<"|">> \o str_float(stat.st_mtime)

\* get_metadata_hash: everything hasher.update received, in order.
RECURSIVE hasher_input(_, _)
hasher_input(names, dir) ==
    IF names = << >> THEN << >>
    ELSE meta_str(Head(names), dir[Head(names)]) \o hasher_input(Tail(names), dir)

metadata_fingerprint(dir) == hasher_input(sorted(DOMAIN dir), dir)

\* The names, sizes and mtimes a leaf directory is drawn from.
DirNames == {<<"1">>, <<"a">>, <<"1", "a">>, <<"|">>, <<"a", "|">>}
Stats == [st_size : {1, 2}, st_mtime : {100, 101}]
LeafDirs ==
    UNION {[names -> Stats] :
              names \in {n \in SUBSET DirNames : Cardinality(n) <= MaxFiles}}

\* A file of the leaf directory is created, rewritten or touched.
WriteFile(name, stat) ==
    /\ pc = "idle"
    /\ \/ name \in DOMAIN leaf_dir /\ leaf_dir[name] # stat
       \/ name \notin DOMAIN leaf_dir /\ Cardinality(DOMAIN leaf_dir) < MaxFiles
    /\ leaf_dir' = [n \in DOMAIN leaf_dir \cup {name} |->
                       IF n = name THEN stat ELSE leaf_dir[n]]
    /\ UNCHANGED <<fs, locked, disk, s3, pc, args, inventory, loaded, branchQ,
                   bagQ, etag, runs, staging, tag_text, key_file, log_dir,
                   last_modified, packed_leaf, bag_path, dest_root,
                   last_scanned, mounted,
                   remote_branch, staged_leaf>>

\* A file of the leaf directory is removed.
RemoveFile(name) ==
    /\ pc = "idle"
    /\ name \in DOMAIN leaf_dir
    /\ leaf_dir' = [n \in DOMAIN leaf_dir \ {name} |-> leaf_dir[n]]
    /\ UNCHANGED <<fs, locked, disk, s3, pc, args, inventory, loaded, branchQ,
                   bagQ, etag, runs, staging, tag_text, key_file, log_dir,
                   last_modified, packed_leaf, bag_path, dest_root,
                   last_scanned, mounted,
                   remote_branch, staged_leaf>>

\* A scan fingerprints the leaf directory.
ScanLeafDir ==
    /\ pc = "idle"
    /\ last_scanned' = [files |-> leaf_dir, hash |-> metadata_fingerprint(leaf_dir)]
    /\ UNCHANGED <<fs, locked, disk, s3, pc, args, inventory, loaded, branchQ,
                   bagQ, etag, runs, staging, tag_text, key_file, log_dir,
                   last_modified, packed_leaf, bag_path, dest_root, leaf_dir,
                   mounted,
                   remote_branch, staged_leaf>>

InitHash ==
    /\ fs = [b \in Branches |-> [l \in LeafNames(b) |-> 0]]
    /\ locked = {}
    /\ disk = [state |-> "missing", inv |-> EmptyInv]
    /\ s3 = << >>
    /\ pc = "idle"
    /\ args = NoArgs
    /\ inventory = EmptyInv
    /\ loaded = EmptyInv
    /\ branchQ = << >>
    /\ bagQ = << >>
    /\ etag = NoEtag
    /\ runs = 0
    /\ staging = {}
    /\ tag_text = << >>
    /\ key_file = "missing"
    /\ log_dir = "ok"
    /\ last_modified = [k \in DOMAIN s3 |-> 0]
    /\ packed_leaf = NoLeaf
    /\ bag_path = NoFile
    /\ dest_root = {}
    /\ leaf_dir \in LeafDirs
    /\ last_scanned = [files |-> leaf_dir, hash |-> metadata_fingerprint(leaf_dir)]
    /\ mounted = {}
    /\ remote_branch = NoBranch
    /\ staged_leaf = NoStaged

NextHash ==
    \/ \E name \in DirNames, stat \in Stats : WriteFile(name, stat)
    \/ \E name \in DirNames : RemoveFile(name)
    \/ ScanLeafDir

SpecHash == InitHash /\ [][NextHash]_vars

(***************************************************************************)
(* Mirror runs on a tree file of two local directories with the same       *)
(* basename: T (/backup/b, two sub-directories) and B (/data/b, one).      *)
(***************************************************************************)

twin_lines == <<"T", "B">>

\* no command option [--run], on the tree file of T and B.
MirrorTwins(live) ==
    /\ Begin
    /\ inventory' = load_inventory(disk)
    /\ EnterLoop(live, SelectSeq(twin_lines,
                     LAMBDA line : is_action_permitted(locked, line, "MIRROR")))
    /\ UNCHANGED <<fs, locked, disk, s3, tag_text, key_file, log_dir,
                   last_modified, packed_leaf, bag_path, dest_root,
                   leaf_dir, last_scanned, mounted,
                   remote_branch, staged_leaf>>
    /\ staging' = cleanup_staging_dir(staging, live)

InitTwins ==
    /\ fs = [b \in {"T", "B"} |-> [l \in LeafNames(b) |-> 0]]
    /\ locked = {}
    /\ disk = [state |-> "missing", inv |-> EmptyInv]
    /\ s3 = << >>
    /\ pc = "idle"
    /\ args = NoArgs
    /\ inventory = EmptyInv
    /\ loaded = EmptyInv
    /\ branchQ = << >>
    /\ bagQ = << >>
    /\ etag = NoEtag
    /\ runs = 0
    /\ staging = {}
    /\ tag_text = << >>
    /\ key_file = "missing"
    /\ log_dir = "ok"
    /\ last_modified = [k \in DOMAIN s3 |-> 0]
    /\ packed_leaf = NoLeaf
    /\ bag_path = NoFile
    /\ dest_root = {}
    /\ leaf_dir = NoFiles
    /\ last_scanned = NoScan
    /\ mounted = {}
    /\ remote_branch = NoBranch
    /\ staged_leaf = NoStaged

NextTwins ==
    \/ \E b \in {"T", "B"} : \E l \in LeafNames(b), c \in 0..MaxContent : LeafChange(b, l, c)
    \/ \E live \in BOOLEAN : MirrorTwins(live)
    \/ ProcessBranch
    \/ SkipBag
    \/ DryRunBag
    \/ UploadBag
    \/ CommitBag
    \/ FinishSaveBag
    \/ EndBranch
    \/ Finish

SpecTwins == InitTwins /\ [][NextTwins]_vars

(***************************************************************************)
(* The delete commands on the tree file of the twins T and B: live         *)
(* --delete-bag and --delete-branch, confirmed, between mirror runs that   *)
(* follow a first live mirror run.                                         *)
(***************************************************************************)

\* The catalog after the first live mirror run of the twins, each holding
\* one leaf x of content 1: T is packed first (bag 1), then B (bag 2).
TwinsMirrored ==
    [b \in {"T", "B"} |->
        [leaves |->
            [l \in {"x"} |->
                [last_metadata_hash |-> get_metadata_hash(1).hash,
                 needs_upload |-> FALSE,
                 size_bytes |-> get_metadata_hash(1).size,
                 tar_id |-> IF b = "T" THEN 1 ELSE 2,
                 archive_key |-> s3_key(b, IF b = "T" THEN 1 ELSE 2),
                 etag |-> <<b, {<<"x", 1>>}>>]],
         last_scan |-> 0]]

InitPurge ==
    /\ fs = [b \in {"T", "B"} |-> [l \in LeafNames(b) |-> IF l = "x" THEN 1 ELSE 0]]
    /\ locked = {}
    /\ disk = [state |-> "ok", inv |-> TwinsMirrored]
    /\ s3 = StoredBucket(TwinsMirrored)
    /\ pc = "idle"
    /\ args = NoArgs
    /\ inventory = EmptyInv
    /\ loaded = EmptyInv
    /\ branchQ = << >>
    /\ bagQ = << >>
    /\ etag = NoEtag
    /\ runs = 0
    /\ staging = {}
    /\ tag_text = << >>
    /\ key_file = "missing"
    /\ log_dir = "ok"
    /\ last_modified = [k \in DOMAIN s3 |-> 0]
    /\ packed_leaf = NoLeaf
    /\ bag_path = NoFile
    /\ dest_root = {}
    /\ leaf_dir = NoFiles
    /\ last_scanned = NoScan
    /\ mounted = {}
    /\ remote_branch = NoBranch
    /\ staged_leaf = NoStaged

NextPurge ==
    \/ NextTwins
    \/ \E n \in 1..MaxBag : BagPurge(n, {}, TRUE, TRUE)
    \/ \E name \in {"T", "B"} : BranchPurge(name, TRUE, TRUE, TRUE)
    \/ OpenSavePurge
    \/ FinishSavePurge
    \/ ExitCommand

SpecPurge == InitPurge /\ [][NextPurge]_vars

(***************************************************************************)
(* process_branch on the remote branch A with each of its exit paths: the  *)
(* live run of SpecBag, and the returns and the exit ahead of the scan.    *)
(***************************************************************************)

\* process_branch when os.path.exists(scan_path) is false: "Path not found",
\* return; the finally clause runs and main goes on with the next line.
PathNotFound ==
    /\ pc = "branch"
    /\ branchQ # << >>
    /\ mounted' = ReleaseMount(mount_remote_branch(mounted, Head(branchQ)),
                               Head(branchQ))
    /\ branchQ' = Tail(branchQ)
    /\ UNCHANGED <<fs, locked, disk, s3, pc, args, inventory, loaded, bagQ,
                   etag, runs, staging, tag_text, key_file, log_dir,
                   last_modified, packed_leaf, bag_path, dest_root,
                   leaf_dir, last_scanned,
                   remote_branch, staged_leaf>>

\* process_branch when identify_leaves returns None (os.listdir raises
\* OSError): the branch has its inventory entry already; return.
ScanError ==
    /\ pc = "branch"
    /\ branchQ # << >>
    /\ inventory' = WithLeaves(inventory, Head(branchQ),
                               LeavesOf(inventory, Head(branchQ)))
    /\ mounted' = ReleaseMount(mount_remote_branch(mounted, Head(branchQ)),
                               Head(branchQ))
    /\ branchQ' = Tail(branchQ)
    /\ UNCHANGED <<fs, locked, disk, s3, pc, args, loaded, bagQ,
                   etag, runs, staging, tag_text, key_file, log_dir,
                   last_modified, packed_leaf, bag_path, dest_root,
                   leaf_dir, last_scanned,
                   remote_branch, staged_leaf>>

\* mount_remote_branch when both sshfs attempts fail: sys.exit(1) ahead of
\* the assignment of mount_point_to_cleanup, nothing was mounted.
MountFails ==
    /\ pc = "branch"
    /\ branchQ # << >>
    /\ remote_conn(Head(branchQ)) # ""
    /\ Head(branchQ) \notin mounted
    /\ Exit
    /\ UNCHANGED <<fs, locked, disk, s3, runs, staging, tag_text, key_file,
                   log_dir, last_modified, packed_leaf, bag_path, dest_root,
                   leaf_dir, last_scanned, mounted,
                   remote_branch, staged_leaf>>

NextMount ==
    \/ NextBag
    \/ PathNotFound
    \/ ScanError
    \/ MountFails

SpecMount == InitBag /\ [][NextMount]_vars

(***************************************************************************)
(* stage_remote_leaf on the leaves of a remote tree line, paths as          *)
(* sequences of characters: the line is drawn (user@host:path or host:path, *)
(* MUTABLE or IMMUTABLE), mount_remote_branch derives the local branch root *)
(* from it, identify_leaves the leaf paths.  The paths drawn hold no "."    *)
(* component and no doubled leading slash.                                  *)
(***************************************************************************)

\* str.rstrip_slash('/') and str.lstrip_slash('/').
RECURSIVE rstrip_slash(_)
rstrip_slash(s) ==
    IF s # << >> /\ s[Len(s)] = "/" THEN rstrip_slash(SubSeq(s, 1, Len(s) - 1)) ELSE s

RECURSIVE lstrip_slash(_)
lstrip_slash(s) == IF s # << >> /\ Head(s) = "/" THEN lstrip_slash(Tail(s)) ELSE s

\* str.find and str.rfind of one character: 0 when it does not occur.
find(s, ch) ==
    IF \E i \in DOMAIN s : s[i] = ch
    THEN CHOOSE i \in DOMAIN s : s[i] = ch /\ \A j \in 1..(i - 1) : s[j] # ch
    ELSE 0
rfind(s, ch) ==
    IF \E i \in DOMAIN s : s[i] = ch
    THEN CHOOSE i \in DOMAIN s : s[i] = ch /\ \A j \in (i + 1)..Len(s) : s[j] # ch
    ELSE 0

\* os.path.normpath on these paths: runs of slashes collapse, a trailing
\* slash goes unless the path is the root.
RECURSIVE collapse(_)
collapse(s) ==
    IF Len(s) < 2 THEN s
    ELSE IF s[1] = "/" /\ s[2] = "/" THEN collapse(Tail(s))
    ELSE <<Head(s)>> \o collapse(Tail(s))
normpath(s) ==
    LET c == collapse(s)
    IN IF Len(c) > 1 /\ c[Len(c)] = "/" THEN SubSeq(c, 1, Len(c) - 1) ELSE c

\* os.path.basename: what follows the last slash.
basename(s) == SubSeq(s, rfind(s, "/") + 1, Len(s))

\* shlex.quote: the string as it is when every character is safe, else in
\* single quotes (no path drawn holds a single quote).
shlex_quote(s) ==
    IF s = << >> THEN <<"'", "'">>
    ELSE IF \E i \in DOMAIN s : s[i] = " " THEN <<"'">> \o s \o <<"'">>
    ELSE s

\* config['settings']['mnt_base'].
MNT_BASE == <<"/", "m">>

\* get_branch_path_info: branch_path.split(":", 1).
split_conn(branch_path) == SubSeq(branch_path, 1, find(branch_path, ":") - 1)
split_base(branch_path) ==
    SubSeq(branch_path, find(branch_path, ":") + 1, Len(branch_path))

\* mount_remote_branch: MNT_BASE/<host_slug>_<base_slug>, the scan path.
scan_path_of(branch_path) ==
    LET conn == split_conn(branch_path)
        host_slug == SubSeq(conn, rfind(conn, "@") + 1, Len(conn))
        base_slug == safe_prefix(basename(normpath(split_base(branch_path))))
    IN MNT_BASE \o <<"/">> \o host_slug \o <<"_">> \o base_slug

\* identify_leaves: the path of the leaf of sub-directory d (MUTABLE), of
\* the one leaf that is the scan path (IMMUTABLE; d is << >>).
leaf_path_of(scan_path, d) == IF d = << >> THEN scan_path ELSE scan_path \o <<"/">> \o d

\* stage_remote_leaf, steps 1 and 2: true_remote_src.
stage_remote_leaf(conn, remote_base_path, local_leaf_path, local_branch_root) ==
    LET prefix == rstrip_slash(local_branch_root) \o <<"/">>
        subpath == lstrip_slash(replace(local_leaf_path, prefix))
        remote_base == rstrip_slash(remote_base_path)
        remote_path_safe == shlex_quote(rstrip_slash(remote_base \o <<"/">> \o subpath))
    IN conn \o <<":">> \o remote_path_safe

\* The remote tree lines and the sub-directory names drawn.
RemoteConns == {<<"u", "@", "h">>, <<"h">>}
RemoteBases ==
    {<<"/", "v">>, <<"/", "v", "/">>, <<"/", "v", "/", "d">>, <<"/", "d", " ", "v">>,
     <<"/", "m">>, <<"/", "m", "/", "h", "_", "v">>}
SubDirs ==
    {<<"d">>, <<"v">>, <<"m">>, <<"d", " ", "v">>, <<"h", "_", "v">>, <<"d", "v">>}

\* prepare_staging_environment on a leaf of the remote branch (the stager
\* runs on a leaf that is a directory: files is empty).
StageLeaf(d) ==
    /\ pc = "idle"
    /\ remote_branch # NoBranch
    /\ d = << >> <=> remote_branch.logic_type = "IMMUTABLE"
    /\ LET branch_path == remote_branch.branch_path
           scan_path == scan_path_of(branch_path)
           leaf_path == leaf_path_of(scan_path, d)
       IN staged_leaf' =
            [local_leaf_path |-> leaf_path,
             true_remote_src |-> stage_remote_leaf(split_conn(branch_path),
                                                   split_base(branch_path),
                                                   leaf_path, scan_path)]
    /\ UNCHANGED <<fs, locked, disk, s3, pc, args, inventory, loaded, branchQ,
                   bagQ, etag, runs, staging, tag_text, key_file, log_dir,
                   last_modified, packed_leaf, bag_path, dest_root,
                   leaf_dir, last_scanned, mounted, remote_branch>>

InitStage ==
    /\ fs = [b \in Branches |-> [l \in LeafNames(b) |-> 0]]
    /\ locked = {}
    /\ disk = [state |-> "missing", inv |-> EmptyInv]
    /\ s3 = << >>
    /\ pc = "idle"
    /\ args = NoArgs
    /\ inventory = EmptyInv
    /\ loaded = EmptyInv
    /\ branchQ = << >>
    /\ bagQ = << >>
    /\ etag = NoEtag
    /\ runs = 0
    /\ staging = {}
    /\ tag_text = << >>
    /\ key_file = "missing"
    /\ log_dir = "ok"
    /\ last_modified = [k \in DOMAIN s3 |-> 0]
    /\ packed_leaf = NoLeaf
    /\ bag_path = NoFile
    /\ dest_root = {}
    /\ leaf_dir = NoFiles
    /\ last_scanned = NoScan
    /\ mounted = {}
    /\ remote_branch \in {[branch_path |-> c \o <<":">> \o p, logic_type |-> t] :
                            c \in RemoteConns, p \in RemoteBases,
                            t \in {"MUTABLE", "IMMUTABLE"}}
    /\ staged_leaf = NoStaged

NextStage == \E d \in SubDirs \cup {<< >>} : StageLeaf(d)

SpecStage == InitStage /\ [][NextStage]_vars

(***************************************************************************)
(* Properties                                                              *)
(***************************************************************************)

\* The catalog a run would load from the inventory file as it is now.
OnDisk == load_inventory(disk)

\* C1: after any sequence of complete live mirror operations, every leaf the
\* on-disk catalog holds as needs_upload = false names an object key that
\* exists in the bucket and, when the leaf records a verifier, the object's
\* ETag equals it.
C1_CommittedLeafOnRemote ==
    (pc = "idle" /\ disk.state = "ok") =>
        \A b \in DOMAIN disk.inv : \A l \in DOMAIN disk.inv[b].leaves :
            LET e == disk.inv[b].leaves[l]
            IN ~e.needs_upload =>
                  /\ e.archive_key \in DOMAIN s3
                  /\ e.etag # NoEtag => s3[e.archive_key] = e.etag

\* C2: when a run is killed after the upload of a bag returned its verifier
\* and before the catalog file is written, the catalog the next run loads
\* holds every leaf of that bag it knows as needs_upload = true with no
\* verifier.
C2_InterruptedBagStillQueued ==
    [][(pc = "uploaded" /\ pc' = "idle") =>
          LET b == Head(branchQ)
          IN \A i \in 1..Len(CurLeafList) :
                CurLeafList[i] \in DOMAIN LeavesOf(OnDisk', b) =>
                    /\ OnDisk'[b].leaves[CurLeafList[i]].needs_upload
                    /\ OnDisk'[b].leaves[CurLeafList[i]].etag = NoEtag]_vars

\* C3: a catalog write is atomic: whenever no invocation runs (after an exit
\* or a kill at any point), the inventory file is a complete document, never
\* a truncated one.
C3_CatalogNeverPartial == pc = "idle" => disk.state # "partial"

\* C4: in a live run, when the run goes on from an uploaded bag to the next
\* bag, the on-disk catalog holds every leaf of the uploaded bag with
\* needs_upload = false, the uploaded key and the returned ETag.
C4_CommittedBeforeNextBag ==
    [][(pc \in {"uploaded", "saving_bag"} /\ pc' = "bag") =>
          LET b == Head(branchQ)
              key == s3_key(b, Head(bagQ))
          IN /\ disk'.state = "ok"
             /\ \A i \in 1..Len(CurLeafList) :
                   LET e == disk'.inv[b].leaves[CurLeafList[i]]
                   IN ~e.needs_upload /\ e.archive_key = key /\ e.etag = etag]_vars

\* C5: no step of any invocation uploads an object of a branch whose line is
\* LOCKED, deletes or overwrites an object its leaves reference, or writes a
\* catalog in which its leaves differ from the ones the invocation loaded.
C5_LockedBranchUntouched ==
    [][\A b \in locked :
          /\ \A k \in DOMAIN s3' :
                k[2] = short_name(b) => k \in DOMAIN s3 /\ s3'[k] = s3[k]
          /\ \A k \in BranchKeys(OnDisk, b) : k \in DOMAIN s3 => k \in DOMAIN s3'
          /\ (pc # "idle" /\ disk'.state = "ok" /\ disk' # disk /\ b \in DOMAIN loaded) =>
                /\ b \in DOMAIN disk'.inv
                /\ disk'.inv[b].leaves = loaded[b].leaves]_vars

\* C6: in standard mode, a leaf that holds a bag id in the catalog and whose
\* fingerprint is unchanged at the re-scan holds the same bag id after the
\* scan and the packing of its branch.
C6_ReservedSeatKept ==
    [][(pc = "branch" /\ pc' = "bag") =>
          LET b == Head(branchQ)
          IN \A l \in DOMAIN LeavesOf(inventory, b) :
                (/\ inventory[b].leaves[l].tar_id # NoBag
                 /\ fs[b][l] # 0
                 /\ get_metadata_hash(fs[b][l]).hash
                       = inventory[b].leaves[l].last_metadata_hash)
                => inventory'[b].leaves[l].tar_id = inventory[b].leaves[l].tar_id]_vars

\* C6, its case: after the scan and packing of a branch, an unchanged leaf
\* seated by an earlier run holds its seat while a leaf new to the catalog
\* was seated beside it.
C6_Witness ==
    /\ pc = "bag"
    /\ \E l \in DOMAIN LeavesOf(loaded, Head(branchQ)) :
          LET old == loaded[Head(branchQ)].leaves[l]
          IN /\ old.tar_id # NoBag
             /\ fs[Head(branchQ)][l] # 0
             /\ get_metadata_hash(fs[Head(branchQ)][l]).hash = old.last_metadata_hash
             /\ inventory[Head(branchQ)].leaves[l].tar_id = old.tar_id
    /\ \E l \in DOMAIN inventory[Head(branchQ)].leaves :
          /\ l \notin DOMAIN LeavesOf(loaded, Head(branchQ))
          /\ inventory[Head(branchQ)].leaves[l].tar_id # NoBag

\* C7: in standard mode, every bag id the packer assigns in a run is greater
\* than every bag id the catalog held before the run, unless it is the
\* highest bag id the branch itself held before the run (its tail bag).
C7_NewBagIdsAboveCatalog ==
    [][(pc = "branch" /\ pc' = "bag") =>
          LET b == Head(branchQ)
          IN \A l \in DOMAIN inventory'[b].leaves :
                LET n == inventory'[b].leaves[l].tar_id
                    old == IF l \in DOMAIN LeavesOf(inventory, b)
                           THEN inventory[b].leaves[l].tar_id ELSE NoBag
                IN n # old =>
                      \/ n > Max(AllBagNums(loaded))
                      \/ n = Max(BagNums(LeavesOf(loaded, b)))]_vars

\* C8: in the on-disk catalog no bag id is held by leaves of two different
\* branches.
C8_NoSharedBagId ==
    disk.state = "ok" =>
        \A b1 \in DOMAIN disk.inv : \A b2 \in DOMAIN disk.inv \ {b1} :
            BagNums(disk.inv[b1].leaves) \cap BagNums(disk.inv[b2].leaves) = {}

\* The branch was fully committed when the run loaded the catalog and the
\* tree holds exactly the leaves, with the fingerprints, the catalog records.
FullyCommittedUnchanged(b) ==
    /\ b \in DOMAIN loaded
    /\ DOMAIN loaded[b].leaves # {}
    /\ DOMAIN loaded[b].leaves = {l \in LeafNames(b) : fs[b][l] # 0}
    /\ \A l \in DOMAIN loaded[b].leaves :
          /\ ~loaded[b].leaves[l].needs_upload
          /\ loaded[b].leaves[l].last_metadata_hash = get_metadata_hash(fs[b][l]).hash

\* C9: when a live mirror run has processed an unchanged, fully committed
\* branch, then at the end of the run no leaf of the branch is queued for
\* upload, its bag ids are the loaded ones, and the on-disk catalog holds
\* the branch with the new last_scan.
C9_RerunUpdatesLastScan ==
    (pc = "branch" /\ branchQ = << >> /\ args.run) =>
        \A b \in Branches :
            (/\ FullyCommittedUnchanged(b)
             /\ b \in DOMAIN inventory
             /\ inventory[b].last_scan = runs)
            => /\ \A l \in DOMAIN loaded[b].leaves :
                     /\ ~inventory[b].leaves[l].needs_upload
                     /\ inventory[b].leaves[l].tar_id = loaded[b].leaves[l].tar_id
               /\ disk.state = "ok"
               /\ b \in DOMAIN disk.inv
               /\ disk.inv[b].last_scan = runs

\* C10: after the scan of a branch, needs_upload of a scanned leaf is true
\* exactly when the leaf is new to the catalog, or its fingerprint differs
\* from the stored one, or its stored needs_upload was true, or the run is a
\* repack.
C10_NeedsUploadIff ==
    pc = "scanned" =>
        LET b == Head(branchQ)
            before == LeavesOf(loaded, b)
        IN \A l \in {k \in LeafNames(b) : fs[b][k] # 0} :
              inventory[b].leaves[l].needs_upload
              <=> \/ l \notin DOMAIN before
                  \/ before[l].last_metadata_hash # get_metadata_hash(fs[b][l]).hash
                  \/ before[l].needs_upload
                  \/ args.cmd = "repack"

\* C10, its case: a standard scan has left a committed, unchanged leaf
\* unqueued and has queued a leaf new to the catalog.
C10_Witness ==
    /\ pc = "scanned"
    /\ args.cmd = "mirror"
    /\ \E l \in DOMAIN LeavesOf(loaded, "A") :
          /\ fs["A"][l] # 0
          /\ ~loaded["A"].leaves[l].needs_upload
          /\ loaded["A"].leaves[l].last_metadata_hash = get_metadata_hash(fs["A"][l]).hash
          /\ ~inventory["A"].leaves[l].needs_upload
    /\ \E l \in LeafNames("A") \ DOMAIN LeavesOf(loaded, "A") :
          /\ fs["A"][l] # 0
          /\ inventory["A"].leaves[l].needs_upload

\* C11: an invocation without --run (mirror, repack, delete-bag,
\* delete-branch, delete-tree, prune, cron) never changes the bucket and never
\* writes the inventory file, at its start or at any later step.
C11_DryRunMutatesNothing ==
    [][((pc # "idle" /\ ~args.run) \/ (pc = "idle" /\ pc' # "idle" /\ ~args'.run))
        => (s3' = s3 /\ disk' = disk)]_vars

\* C11, its case: a dry prune has found orphan objects and has left them in
\* the bucket.
C11_Witness ==
    /\ pc = "exiting"
    /\ args.cmd = "prune"
    /\ ~args.run
    /\ PruneOrphans(inventory, s3) # {}
    /\ disk.state = "ok"

\* The leaves of the bag being built that are not in the packed container:
\* the leaves whose staging failed.
UnstagedLeaves ==
    {l \in CurLeaves : <<l, fs[Head(branchQ)][l]>> \notin tar_sequence(staging, Head(branchQ))}

\* C12: when the remote staging of a leaf of a bag has failed, the bag is not
\* uploaded and the run aborts: the next step ends the process, leaves the
\* bucket as it is and leaves the inventory file, with the bags committed
\* before, as it is.
C12_StagingFailureAborts ==
    [][(pc = "built" /\ UnstagedLeaves # {})
        => (pc' = "idle" /\ s3' = s3 /\ disk' = disk)]_vars

\* The leaves of the branch being processed whose fingerprint differs from
\* the one the catalog loaded by this run holds for them.
ChangedLeaves ==
    LET b == Head(branchQ)
    IN {l \in DOMAIN LeavesOf(loaded, b) :
           /\ fs[b][l] # 0
           /\ loaded[b].leaves[l].last_metadata_hash # get_metadata_hash(fs[b][l]).hash}

\* C13: in a standard run, a leaf whose fingerprint has changed since the
\* last run is dirty after the scan and its bag id is cleared; the bag that
\* held it is queued for upload after packing; the leaves of the bags that
\* hold no changed leaf keep their bag id and their upload flag.
C13_ChangedLeafClearedAndReuploaded ==
    (pc \in {"scanned", "packed"} /\ args.cmd = "mirror") =>
        LET b == Head(branchQ)
            before == LeavesOf(loaded, b)
            now == inventory[b].leaves
            dirty_bags == {before[l].tar_id : l \in ChangedLeaves}
        IN /\ pc = "scanned" =>
                \A l \in ChangedLeaves : now[l].needs_upload /\ now[l].tar_id = NoBag
           /\ pc = "packed" =>
                \A l \in ChangedLeaves :
                    before[l].tar_id # NoBag =>
                        \E i \in 1..Len(bagQ) :
                            /\ bagQ[i] = before[l].tar_id
                            /\ should_upload_bag(
                                   LeafList(identify_leaves(fs, b), now, bagQ[i]), now)
           /\ \A l \in DOMAIN before :
                 (fs[b][l] # 0 /\ before[l].tar_id # NoBag
                  /\ before[l].tar_id \notin dirty_bags)
                 => /\ now[l].tar_id = before[l].tar_id
                    /\ now[l].needs_upload = before[l].needs_upload

\* The first-fit packing of the leaves found(i..) onto the bags opened so
\* far: a leaf goes to the lowest bag that still has room for it (a bag
\* that weighs nothing has room for any leaf), or to a new bag when none has;
\* seat maps the leaves placed so far to their bag.
RECURSIVE FirstFit(_, _, _, _)
FirstFit(found, i, branch_leaves, seat) ==
    IF i > Len(found) THEN seat
    ELSE LET l == found[i]
             used == {seat[k] : k \in DOMAIN seat}
             load(n) == SumSize(branch_leaves, {k \in DOMAIN seat : seat[k] = n})
             fits == {n \in used :
                        \/ load(n) + branch_leaves[l].size_bytes <= TARGET_SIZE_BYTES
                        \/ load(n) = 0}
             n == IF fits # {} THEN CHOOSE m \in fits : \A o \in fits : m <= o
                  ELSE Max(used) + 1
         IN FirstFit(found, i + 1, branch_leaves,
                     [k \in DOMAIN seat \cup {l} |-> IF k = l THEN n ELSE seat[k]])

UnassignedLeaves ==
    LET b == Head(branchQ)
        before == LeavesOf(loaded, b)
    IN {l \in LeafNames(b) :
           /\ fs[b][l] # 0
           /\ \/ args.cmd = "repack"
              \/ l \notin DOMAIN before
              \/ before[l].tar_id = NoBag}

\* The bag ids the packer has opened: those it gave to unassigned leaves and
\* that it did not find in use (in a repack every bag is opened anew).
NewBagIds ==
    LET b == Head(branchQ)
    IN {inventory[b].leaves[l].tar_id : l \in UnassignedLeaves}
       \ (IF args.cmd = "repack" THEN {} ELSE AllBagNums(loaded))

\* C16: after packing, the number of bag ids newly opened is at most
\* ceil(V / T) + 1, V the total size of the unassigned leaves and T the
\* target bag size.
C16_NewBagsBounded ==
    pc = "packed" =>
        LET V == SumSize(inventory[Head(branchQ)].leaves, UnassignedLeaves)
        IN Cardinality(NewBagIds)
               <= ((V + TARGET_SIZE_BYTES - 1) \div TARGET_SIZE_BYTES) + 1

\* C17: after packing, a leaf larger than the target bag size that the
\* packer has seated holds exactly one bag, and no other leaf the packer has
\* seated holds that bag, whatever the order and the sizes (zero included) of
\* the other leaves.
C17_OversizeLeafAlone ==
    pc = "packed" =>
        LET now == inventory[Head(branchQ)].leaves
        IN \A l \in UnassignedLeaves :
              now[l].size_bytes > TARGET_SIZE_BYTES =>
                  /\ now[l].tar_id # NoBag
                  /\ \A k \in UnassignedLeaves \ {l} : now[k].tar_id # now[l].tar_id

\* C18: after packing, a leaf the packer has seated whose size filled the
\* current bag exactly (the size of the bag the counter pointed at, plus the
\* leaf's size, equals the target bag size) holds that bag: the counter was
\* not advanced for it.
C18_ExactFitStays ==
    pc = "packed" =>
        LET b == Head(branchQ)
            found == identify_leaves(fs, b)
            now == inventory[b].leaves
            is_repack == args.cmd = "repack"
            seated == [l \in DOMAIN now \ UnassignedLeaves |-> now[l]]
            start == StartCounter(WithLeaves(loaded, b, seated), seated, is_repack)
        IN \A i \in 1..Len(found) :
              found[i] \in UnassignedLeaves =>
                  LET earlier == {found[j] : j \in 1..(i - 1)} \cap UnassignedLeaves
                      cur_bag == IF earlier = {} THEN start
                                 ELSE Max({now[k].tar_id : k \in earlier})
                      cur_size == SumSize(now, {k \in earlier : now[k].tar_id = cur_bag})
                                  + (IF cur_bag = start
                                     THEN StartSize(seated, start, is_repack) ELSE 0)
                  IN cur_size + now[found[i]].size_bytes = TARGET_SIZE_BYTES
                         => now[found[i]].tar_id = cur_bag

\* C18, its case: the packer has seated two leaves of half the target size
\* each, one after the other, in one bag.
C18_Witness ==
    /\ pc = "packed"
    /\ LET now == inventory[Head(branchQ)].leaves
       IN \E k \in UnassignedLeaves : \E l \in UnassignedLeaves \ {k} :
             /\ now[k].size_bytes > 0
             /\ now[l].size_bytes > 0
             /\ now[k].size_bytes + now[l].size_bytes = TARGET_SIZE_BYTES
             /\ now[k].tar_id = now[l].tar_id

\* C19: while the inventory file cannot be parsed, an invocation exits
\* before it scans, uploads, deletes or writes anything: no run gets past the
\* load, the bucket and the file stay as they are.  When the file is missing,
\* the run starts on a fresh, empty catalog.
C19_MalformedCatalogFatal ==
    [][/\ (pc = "idle" /\ disk.state = "partial")
            => (pc' = "idle" /\ s3' = s3 /\ disk' = disk /\ inventory' = inventory)
       /\ (pc = "idle" /\ pc' # "idle" /\ disk.state = "missing")
            => (loaded' = EmptyInv /\ disk' = disk)]_vars

\* C19, its case: a second invocation has met the file an interrupted save
\* of the first left truncated, and the bucket still holds what was uploaded.
C19_Witness ==
    /\ pc = "idle"
    /\ disk.state = "partial"
    /\ runs > 1
    /\ s3 # << >>

\* C20: when the upload of a bag fails (upload_file or the head_object after
\* it), the run ends with the container and the staged artifacts of the bag
\* removed and the inventory file as it was; and up to that point no step of
\* the build has changed the needs_upload mark of a leaf in memory.
C20_UploadFailureCleansUp ==
    [][/\ (pc = "built" /\ pc' = "idle")
            => /\ \A f \in staging' :
                     ~(f.branch = Head(branchQ)
                       /\ (f.kind = "comp" \/ f.bag = Head(bagQ)))
               /\ disk' = disk
       /\ (pc \in {"bag", "leaves_done"} /\ pc' \in {"leaves_done", "built"})
            => \A l \in DOMAIN inventory[Head(branchQ)].leaves :
                  inventory'[Head(branchQ)].leaves[l].needs_upload
                      = inventory[Head(branchQ)].leaves[l].needs_upload]_vars

\* C20, its case: the run has ended after a failed verification of an
\* upload: the bucket holds an object that no committed leaf of the
\* inventory file points at, and the staging directory is empty.
C20_Witness ==
    /\ pc = "idle"
    /\ staging = {}
    /\ disk.state = "ok"
    /\ \E k \in DOMAIN s3 :
          \A b \in DOMAIN disk.inv : \A l \in DOMAIN disk.inv[b].leaves :
              ~(disk.inv[b].leaves[l].archive_key = k
                /\ ~disk.inv[b].leaves[l].needs_upload)

\* C21: when the line of a branch carries the ENCRYPT tag as the tag parser
\* reads it and key.txt is missing or empty, an invocation ends at once:
\* nothing is scanned, staged, uploaded or written to the catalog.
C21_EncryptValidatedFirst ==
    [][(pc = "idle" /\ runs' # runs /\ needs_encrypt("B") /\ key_file # "ok")
        => (pc' = "idle" /\ UNCHANGED <<s3, disk, inventory, staging,
                                        last_modified>>)]_vars

\* C22: once the upload of a bag has returned its verifier, a failing audit
\* log (aws.log cannot be written, or logs/ cannot be created) does not end
\* the run: the bag goes on to its commit.
C22_LogFailureNotFatal ==
    [][(pc = "verified" /\ log_dir # "ok") => pc' = "uploaded"]_vars

\* C23, the maturity of a branch at day now: no last_scan recorded, a stored
\* stamp that cannot be parsed, or at least scan_interval whole days old.
Mature(inv, b, now) ==
    IF b \notin DOMAIN inv \/ inv[b].last_scan = 0 THEN TRUE
    ELSE IF inv[b].last_scan = Unparsable THEN TRUE
    ELSE now - inv[b].last_scan >= scan_interval

ContainerBuilt ==
    \E f \in staging :
        /\ f.kind = "tar" /\ f.branch = Head(branchQ) /\ f.bag = Head(bagQ)
        /\ f.members # {}

\* C24: within each bag of a live run, the container is assembled only when
\* the artifact of every leaf of the bag is complete, the upload starts only
\* when the container is complete, the commit starts only when the upload
\* has returned its verifier, and the next bag begins only when the commit
\* is complete in the inventory file.
C24_BagStepsInOrder ==
    [][/\ (pc = "leaves_done" /\ pc' = "built") => UnstagedLeaves = {}
       /\ (pc # "verified" /\ pc' = "verified") => (pc = "built" /\ ContainerBuilt)
       /\ (pc # "saving_bag" /\ pc' = "saving_bag")
            => /\ pc = "uploaded"
               /\ etag # NoEtag
               /\ s3_key(Head(branchQ), Head(bagQ)) \in DOMAIN s3
               /\ s3[s3_key(Head(branchQ), Head(bagQ))] = etag
       /\ (pc \in {"uploaded", "saving_bag"} /\ pc' = "bag")
            => /\ disk'.state = "ok"
               /\ \A l \in CurLeaves :
                     /\ ~disk'.inv[Head(branchQ)].leaves[l].needs_upload
                     /\ disk'.inv[Head(branchQ)].leaves[l].etag = etag]_vars

\* C24 without its first part: the order of container, upload, commit and
\* next bag.
BagStepsAfterStaging ==
    [][/\ (pc # "verified" /\ pc' = "verified") => (pc = "built" /\ ContainerBuilt)
       /\ (pc # "saving_bag" /\ pc' = "saving_bag")
            => /\ pc = "uploaded"
               /\ etag # NoEtag
               /\ s3_key(Head(branchQ), Head(bagQ)) \in DOMAIN s3
               /\ s3[s3_key(Head(branchQ), Head(bagQ))] = etag
       /\ (pc \in {"uploaded", "saving_bag"} /\ pc' = "bag")
            => /\ disk'.state = "ok"
               /\ \A l \in CurLeaves :
                     /\ ~disk'.inv[Head(branchQ)].leaves[l].needs_upload
                     /\ disk'.inv[Head(branchQ)].leaves[l].etag = etag]_vars

\* C25: a prune run never deletes an orphan (an object no leaf of the
\* inventory file mentions) that has been on the remote store for less than
\* 180 days.
C25_PruneKeepsYoungOrphans ==
    [][\A k \in PruneOrphans(load_inventory(disk), s3) \ DOMAIN s3' :
          get_s3_file_age(last_modified, k, runs') >= EARLY_DELETE_DAYS]_vars


\* C26: restoring the bag a leaf was packed into leaves, under the restore
\* destination, exactly the files of the packed leaf with their data, for
\* the plain, COMPRESS, ENCRYPT and ENCRYPT+COMPRESS variants and for
\* directory leaves and the branch-root leaf.
C26_RestoreRoundTrip ==
    [][(bag_path # NoFile /\ bag_path' = NoFile)
        => dest_root' = leaf_files(packed_leaf)]_vars


\* C27: a re-scan yields the fingerprint of the previous scan when no file's
\* (rel_path, size, mtime) triple and not the set of files has changed since,
\* and a different fingerprint when a triple or the set of files has changed,
\* whatever the names are (digits and '|' included).
C27_FingerprintTracksTriples ==
    [][last_scanned' # last_scanned
        => ((last_scanned'.hash = last_scanned.hash)
               <=> (last_scanned'.files = last_scanned.files))]_vars


\* C28: in standard mode the packer starts a branch that holds bags at the
\* branch's own highest bag number, with current_bag_size the sum of the
\* sizes of the branch's leaves seated in that bag, and a branch that holds
\* no bag at the highest bag number of the whole catalog plus one; seen at
\* the first leaf that gets a seat, which joins the starting bag unless that
\* bag holds something and the leaf would make it exceed the target size.
C28_PackerStart ==
    [][(pc = "scanned" /\ pc' = "packed" /\ args.cmd # "repack")
        => LET b == Head(branchQ)
               leaves == inventory[b].leaves
               unseated == SelectSeq(identify_leaves(fs, b),
                                     LAMBDA l : leaves[l].tar_id = NoBag)
               own == {leaves[l].tar_id : l \in DOMAIN leaves} \ {NoBag}
               global == UNION {{inventory[k].leaves[l].tar_id :
                                    l \in DOMAIN inventory[k].leaves} \ {NoBag} :
                                k \in DOMAIN inventory}
               start == IF own = {} THEN Max(global) + 1 ELSE Max(own)
               current_bag_size ==
                   SumSize(leaves, {l \in DOMAIN leaves : leaves[l].tar_id = start})
           IN unseated # << >>
                 => inventory'[b].leaves[Head(unseated)].tar_id =
                        IF /\ current_bag_size > 0
                           /\ current_bag_size + leaves[Head(unseated)].size_bytes
                                  > TARGET_SIZE_BYTES
                        THEN start + 1 ELSE start]_vars

\* A new leaf of a branch whose highest bag lies below the highest bag of
\* the catalog has joined the branch's own highest bag.
C28_Witness ==
    /\ pc = "packed"
    /\ args.cmd = "mirror"
    /\ "A" \in DOMAIN loaded
    /\ BagNums(loaded["A"].leaves) # {}
    /\ Max(AllBagNums(loaded)) > Max(BagNums(loaded["A"].leaves))
    /\ \E l \in DOMAIN inventory["A"].leaves \ DOMAIN loaded["A"].leaves :
          inventory["A"].leaves[l].tar_id = Max(BagNums(loaded["A"].leaves))


\* C29: the commit of a bag marks a leaf as uploaded (needs_upload = false)
\* only when that leaf is a member of the container that was uploaded (the
\* verifier of the upload names the members); a leaf for which compress_leaf
\* or encrypt_leaf returned no artifact is not recorded as committed.
C29_CommitOnlyPackedLeaves ==
    [][(pc = "uploaded" /\ pc' \in {"saving_bag", "bag"})
        => LET b == Head(branchQ)
           IN \A l \in DOMAIN inventory'[b].leaves :
                 (inventory[b].leaves[l].needs_upload
                     /\ ~inventory'[b].leaves[l].needs_upload)
                    => \E m \in etag[2] : m[1] = l]_vars


\* C30: while one branch is processed, no upload and no cleanup overwrites
\* or deletes an object that the catalog records as the archive_key of a
\* committed leaf of another branch: two branches never map bags to the
\* same object key, also when their host and path basename are the same.
C30_BranchesKeepTheirObjects ==
    [][(pc \in {"bag", "uploaded", "saving_bag"} /\ branchQ # << >>)
        => \A b \in DOMAIN inventory \ {Head(branchQ)} :
              \A l \in DOMAIN inventory[b].leaves :
                 LET e == inventory[b].leaves[l]
                 IN (~e.needs_upload /\ e.archive_key \in DOMAIN s3)
                       => /\ e.archive_key \in DOMAIN s3'
                          /\ s3'[e.archive_key] = s3[e.archive_key]]_vars


\* C31: no prune, by glacier --prune or by prune.py, deletes an object whose
\* key is the archive_key of a leaf of the catalog in the inventory file:
\* every bag the inventory mentions stays in the bucket.
C31_PruneKeepsCatalogBags ==
    [][\A b \in DOMAIN load_inventory(disk) :
          \A k \in BranchKeys(load_inventory(disk), b) :
             k \in DOMAIN s3 => k \in DOMAIN s3']_vars


\* C32: when a live mirror run ends, the inventory file holds, for every
\* branch the run has processed, the last_scan stamp process_branch set for
\* it, whether or not a bag was committed after the stamp was set.
C32_LastScanPersisted ==
    [][(pc = "branch" /\ branchQ = << >> /\ pc' = "idle" /\ args.run)
        => \A b \in DOMAIN inventory :
              inventory[b].last_scan = runs
                 => /\ disk'.state = "ok"
                    /\ b \in DOMAIN disk'.inv
                    /\ disk'.inv[b].last_scan = runs]_vars


\* C33: the scan of a leaf that is committed and whose fingerprint has not
\* changed leaves the verifier (etag) recorded for it in the catalog as it is.
C33_RescanKeepsVerifier ==
    [][(pc = "branch" /\ pc' = "bag")
        => LET b == Head(branchQ)
           IN \A l \in DOMAIN LeavesOf(inventory, b) :
                 (/\ ~inventory[b].leaves[l].needs_upload
                  /\ fs[b][l] # 0
                  /\ get_metadata_hash(fs[b][l]).hash
                        = inventory[b].leaves[l].last_metadata_hash)
                    => inventory'[b].leaves[l].etag = inventory[b].leaves[l].etag]_vars


\* C34: when the archive subprocess of a bag exits non-zero the run ends
\* without an upload and without a commit of the bag, and the per-leaf
\* artifacts and the partial container produced for that bag are removed
\* from the staging directory before the process exits.
C34_PipelineErrorCleansUp ==
    [][(pc = "leaves_done" /\ pc' = "idle")
        => /\ s3' = s3
           /\ disk' = disk
           /\ \A f \in staging' : f.branch # Head(branchQ)]_vars


\* C35: a live --delete-bag or --delete-branch removes from the catalog
\* exactly the leaves of the target (a removed leaf belongs to a branch that
\* is gone as a whole or to a bag id none of whose leaves is left), and no
\* leaf that stays in the catalog names an object the command deleted.
C35_PurgeLeavesNoDanglingKey ==
    [][(pc = "idle" /\ pc' = "purged" /\ args'.cmd = "delete")
        => LET inv == load_inventory(disk)
               gone == DOMAIN s3 \ DOMAIN s3'
           IN /\ \A b \in DOMAIN inv : \A l \in DOMAIN inv[b].leaves :
                    (b \in DOMAIN inventory' /\ l \notin DOMAIN inventory'[b].leaves)
                       => \A c \in DOMAIN inventory' :
                             \A k \in DOMAIN inventory'[c].leaves :
                                inventory'[c].leaves[k].tar_id # inv[b].leaves[l].tar_id
              /\ \A b \in DOMAIN inventory' : \A l \in DOMAIN inventory'[b].leaves :
                    /\ l \in DOMAIN inv[b].leaves
                    /\ inventory'[b].leaves[l] = inv[b].leaves[l]
                    /\ inventory'[b].leaves[l].archive_key \notin gone]_vars


\* C36: the mount of a remote branch is held only while process_branch
\* works on that branch: once the branch is left, by normal completion, by
\* "path not found", by a scan error or by a fatal exit during bag build or
\* upload, no mount point is mounted.
C36_MountReleased == pc \in {"idle", "branch"} => mounted = {}

\* The run on the remote branch A ended in a fatal exit after leaves of A
\* were staged, and the mount is gone.
C36_Witness ==
    /\ pc = "idle"
    /\ mounted = {}
    /\ \E f \in staging : f.branch = "A" /\ remote_conn(f.branch) # ""


\* C37: the rsync source of a staged leaf of a remote branch is the remote
\* connection, a colon, and (quoted for the remote shell) the remote base
\* joined with the leaf's path relative to the local branch root; for the
\* leaf that is the branch root itself the relative path is empty and the
\* source is the remote base.
C37_RemoteSourceIsBasePlusRelPath ==
    staged_leaf # NoStaged
       => LET branch_path == remote_branch.branch_path
              root == scan_path_of(branch_path)
              leaf == staged_leaf.local_leaf_path
              rel == IF leaf = root THEN << >>
                     ELSE SubSeq(leaf, Len(root) + 2, Len(leaf))
              base == rstrip_slash(split_base(branch_path))
              joined == IF rel = << >> THEN base ELSE base \o <<"/">> \o rel
          IN staged_leaf.true_remote_src
                = split_conn(branch_path) \o <<":">> \o shlex_quote(joined)


\* C38: after process_branch has packed a branch in standard mode, every
\* bag that seats more than one of the leaves found has a total size (the
\* sum of their current size_bytes) of at most TARGET_SIZE_BYTES, leaves
\* that keep a reserved seat and have grown included.
C38_SharedBagsFitTarget ==
    [][(pc = "branch" /\ pc' = "bag")
        => LET b == Head(branchQ)
               leaves == inventory'[b].leaves
               found == {l \in DOMAIN leaves : fs[b][l] # 0}
           IN \A n \in BagNums(leaves) :
                 LET seated == {l \in found : leaves[l].tar_id = n}
                 IN Cardinality(seated) > 1
                       => SumSize(leaves, seated) <= TARGET_SIZE_BYTES]_vars
=============================================================================
